---- MODULE Spec2Model ----
(***************************************************************************)
(* Verification model of HEX-data-processor.                               *)
(*                                                                         *)
(*   SpecHTTP    src/http_client.py  HTTPClient.fetch, _apply_rate_limit,  *)
(*               fetch_multiple                                            *)
(*   SpecScrape  src/scraper.py      Scraper.scrape_target, _scrape_static,*)
(*               _scrape_with_js                                           *)
(*   SpecClean   src/cleaner.py      DataCleaner.clean_data and its stages *)
(*   SpecDedup, SpecTransform        the cleaner's dedup, DataTransformer  *)
(*   SpecLock, SpecRoundTrip, SpecCsv    src/storage/ adapters             *)
(*   SpecRun     src/main.py         DataProcessor.run_target_once         *)
(*   SpecSched, SpecSchedLive, SpecPool  src/scheduler.py SchedulerManager *)
(*   SpecEval    src/transformer.py  SafeEvaluator.evaluate_lambda         *)
(*   SpecChain, SpecExtract          the scraper's pagination, extraction  *)
(*   SpecString  src/cleaner.py      DataCleaner._clean_string             *)
(*   SpecHTTPLive                    fetch_multiple followed to its end    *)
(*   SpecGauge   src/main.py, src/metrics.py   the active_runs gauge       *)
(*                                                                         *)
(* Time is counted in whole ticks.  A sleep wakes at or after its deadline *)
(* (asyncio.sleep never wakes early).  The back-off sleep tenacity inserts *)
(* between two attempts is modelled as a suspension of unspecified length. *)
(***************************************************************************)
EXTENDS Integers, Sequences, FiniteSets, TLC

\* ------------------------------------------------------------------------
\* Bounds
\* ------------------------------------------------------------------------
MaxUrls == 2            \* longest URL list handed to fetch_multiple
MaxConcurrentBound == 2 \* largest max_concurrent tried
MaxTime == 7            \* last clock tick explored
RateLimitTicks == 2     \* HTTPClient.rate_limit, in ticks
MaxJitter == 1          \* random.uniform(0, 0.1), rounded up to ticks
NumPages == 3           \* distinct URLs of the scraped site
MaxStart == 3           \* longest start_urls list
MaxPagesBound == 3      \* largest pagination.max_pages tried
MaxItemsPerPage == 1    \* most item containers on one page
MaxStrLen == 2          \* longest string value of an input item
MaxItems == 2           \* longest item list handed to clean_data

\* ------------------------------------------------------------------------
\* Program constants
\* ------------------------------------------------------------------------
StopAfterAttempt == 3   \* stop=stop_after_attempt(3)

None == "None"
Redirected == "redirected"   \* str(response.url) after a followed redirect

VARIABLES
    \* ---- HTTPClient ----
    max_retries,        \* self.max_retries
    now,                \* time.time()
    last_request_time,  \* self._last_request_time
    request_lock,       \* self._request_lock: 0 = free, else the holder
    urls,               \* fetch_multiple's urls argument (URL i is task i)
    max_concurrent,     \* fetch_multiple's max_concurrent argument
    semaphore,          \* free permits of the asyncio.Semaphore
    pc,                 \* position of each fetch_with_semaphore task
    attempt_number,     \* tenacity's retry_state.attempt_number per task
    wakeAt,             \* deadline of the rate-limit sleep per task
    outcomes,           \* outcome of every attempt made so far, per task
    raised,             \* exception class fetch surfaced to its caller
    results,            \* what gather collected for each task
    valid_results,      \* fetch_multiple's return value
    fm_pc,              \* position of fetch_multiple itself
    gate_passes,        \* number of requests that passed the rate gate
    \* ---- Scraper ----
    js_renderer_available, \* self._js_renderer_available
    start_url_is_str,   \* whether the HttpUrl objects of start_urls are str
    target_config,      \* the TargetConfig handed to scrape_target
    urls_to_process,    \* the frontier list of _scrape_static
    processed_urls,     \* the visited set of _scrape_static
    idx,                \* position of the for loop in urls_to_process
    items,              \* items collected so far
    visit_log,          \* every call of http_client.fetch, with its outcome
    pending_at_failure, \* URLs that were pending when a page failed
    scrape_pc,          \* position of scrape_target
    scrape_error,       \* exception scrape_target raised
    \* ---- DataCleaner ----
    cleaner_config,     \* self.config
    cleaning_config,    \* clean_data's cleaning_config argument: <<>> is
                        \* None, <<c>> the override c
    clean_input,        \* the items handed to clean_data
    clean_once,         \* clean_data(items)
    clean_twice,        \* clean_data(clean_data(items))
    unique_items,       \* _remove_duplicates(items, duplicate_keys)
    clean_pc,           \* how many times clean_data has been applied
    \* ---- DataTransformer ----
    transformer_config, \* config of transform_data
    transform_input,    \* the items handed to transform_data
    mapped_items,       \* mapped_item of every _transform_item call so far
    typed_items,        \* typed_item of every _transform_item call so far
    transform_failed,   \* whether each _transform_item call so far raised
    transformed_items,  \* transformed_items of transform_data
    transform_pc,       \* position of transform_data
    \* ---- Storage adapters: self._file_lock ----
    same_loop,          \* whether the callers are tasks of one event loop
    adapter,            \* which adapter the callers share: csv or jsonl
    lock_locked,        \* self._file_lock._locked
    lock_waiters,       \* self._file_lock._waiters, as caller ids
    lock_loop,          \* self._file_lock._loop: 0 is None
    lock_woken,         \* waiters whose future has a result
    call_op,            \* the operation each caller invokes
    call_pc,            \* position of each caller
    call_step,          \* steps of its critical section a caller has done
    call_result,        \* what each call returned
    io_log,             \* every file operation made, with its caller
    \* ---- Storage backends: save then load ----
    storage_type,       \* the backend under test: csv, jsonl or sqlite
    saved_items,        \* the items handed to save
    store,              \* what the backend holds: file rows, lines or table rows
    loaded_items,       \* what load() returned
    roundtrip_pc,       \* position of the save / load sequence
    \* ---- CSVStorage: the file ----
    csv_mode,           \* self.mode: a or w
    file_exists,        \* os.path.exists(self.filename)
    csv_file,           \* the rows of the file, each marked header or data
    since_clear,        \* the items saved since the file was last emptied
    saves_since_clear,  \* save calls that wrote since the last clear
    csv_calls,          \* calls made on the adapter so far
    \* ---- DataProcessor.run_target_once ----
    run_pc,             \* position of run_target_once
    dry_run,            \* run_target_once's dry_run argument
    has_notifier,       \* whether self.notifier is set
    scraped_count,      \* len(scraped_items)
    processed_count,    \* len(cleaned_items)
    transformed_count,  \* len(transformed_items)
    save_success,       \* what self.storage.save returned, None before
    saved_count,        \* len(saved_items)
    run_pending,        \* what the try statement is about to leave with
    run_result,         \* what run_target_once returned: its 'success'
    run_escaped,        \* whether an exception left run_target_once
    \* ---- SchedulerManager ----
    scheduler_running,  \* self.scheduler.running
    job_store,          \* ids of the jobs the scheduler holds
    interval,           \* the IntervalTrigger's period of each job, in ticks
    until_fire,         \* ticks until each job's next trigger time
    paused,             \* whether a job's next_run_time is None
    pause_called,       \* jobs for which pause_job returned True and
                        \* resume_job has not been called since
    run_state,          \* each job's current firing: idle, queued or running
    failed_last,        \* whether a job's last finished firing raised
    job_stats,          \* self.job_stats
    trigger,            \* each job's trigger: interval or date
    active_jobs,        \* ids the manager tracks: keys of self.active_jobs
    last_run,           \* self.active_jobs[id]['last_run']
    \* ---- SafeEvaluator ----
    eval_lambda_str,    \* the custom function string being evaluated
    eval_pc,            \* where evaluate_lambda is
    eval_at,            \* how many steps of the body have been evaluated
    eval_obj,           \* the object the evaluation currently holds
    eval_reached,       \* the objects the evaluation has held
    eval_result,        \* the value returned, or TransformationError
    \* ---- Scraper._extract_items ----
    selectors,          \* target_config.selectors: field -> selector
    target_name,        \* target_config.name
    run_id,             \* the Run the extraction belongs to
    source_url,         \* the page being extracted
    item_elements,      \* soup.select(item_selector): what each selector finds in each
    element_at,         \* the element _extract_items is at
    page_items,         \* the items list _extract_items builds
    extract_log,        \* for each emitted item, the element it came from
    utcnow,             \* datetime.utcnow(), in ticks
    extract_pc,         \* where _extract_items is
    \* ---- DataCleaner._clean_string ----
    clean_value,        \* the argument of _clean_string
    clean_result,       \* what _clean_string returned
    clean_string_pc,    \* where the call of _clean_string is
    \* ---- active_runs gauge under concurrent runs (src/main.py, src/metrics.py) ----
    active_runs,        \* the active_runs gauge, one value per target label
    job_target,         \* the target each scheduler job runs
    once_pc,            \* where each job's run_target_once stands
    once_success        \* the 'success' of each run's result

httpVars == <<max_retries, now, last_request_time, request_lock, urls,
              max_concurrent, semaphore, pc, attempt_number, wakeAt, outcomes,
              raised, results, valid_results, fm_pc, gate_passes>>

scrapeVars == <<js_renderer_available, start_url_is_str, target_config,
                urls_to_process, processed_urls, idx, items, visit_log,
                pending_at_failure, scrape_pc, scrape_error>>

cleanVars == <<cleaner_config, cleaning_config, clean_input, clean_once,
               clean_twice, unique_items, clean_pc>>

transformVars == <<transformer_config, transform_input, mapped_items,
                   typed_items, transform_failed, transformed_items,
                   transform_pc>>

lockVars == <<same_loop, adapter, lock_locked, lock_waiters, lock_loop,
              lock_woken, call_op, call_pc, call_step, call_result, io_log>>

roundTripVars == <<storage_type, saved_items, store, loaded_items,
                   roundtrip_pc>>

csvVars == <<csv_mode, file_exists, csv_file, since_clear, saves_since_clear,
             csv_calls>>

runVars == <<run_pc, dry_run, has_notifier, scraped_count, processed_count,
             transformed_count, save_success, saved_count, run_pending,
             run_result, run_escaped>>

schedVars == <<scheduler_running, job_store, interval, until_fire, paused,
               pause_called, run_state, failed_last, job_stats, trigger,
               active_jobs, last_run>>

evalVars == <<eval_lambda_str, eval_pc, eval_at, eval_obj, eval_reached,
              eval_result>>

extractVars == <<selectors, target_name, run_id, source_url, item_elements,
                 element_at, page_items, extract_log, utcnow, extract_pc>>

stringVars == <<clean_value, clean_result, clean_string_pc>>

gaugeVars == <<active_runs, job_target, once_pc, once_success>>

vars == <<httpVars, scrapeVars, cleanVars, transformVars, lockVars,
    roundTripVars, csvVars, runVars, schedVars, evalVars, extractVars,
    stringVars, gaugeVars>>

notHttpVars == <<scrapeVars, cleanVars, transformVars, lockVars,
    roundTripVars, csvVars, runVars, schedVars, evalVars, extractVars,
    stringVars, gaugeVars>>
notScrapeVars == <<httpVars, cleanVars, transformVars, lockVars,
    roundTripVars, csvVars, runVars, schedVars, evalVars, extractVars,
    stringVars, gaugeVars>>
notCleanVars == <<httpVars, scrapeVars, transformVars, lockVars,
    roundTripVars, csvVars, runVars, schedVars, evalVars, extractVars,
    stringVars, gaugeVars>>
notTransformVars == <<httpVars, scrapeVars, cleanVars, lockVars,
    roundTripVars, csvVars, runVars, schedVars, evalVars, extractVars,
    stringVars, gaugeVars>>
notLockVars == <<httpVars, scrapeVars, cleanVars, transformVars,
    roundTripVars, csvVars, runVars, schedVars, evalVars, extractVars,
    stringVars, gaugeVars>>
notRoundTripVars == <<httpVars, scrapeVars, cleanVars, transformVars,
    lockVars, csvVars, runVars, schedVars, evalVars, extractVars,
    stringVars, gaugeVars>>
notCsvVars == <<httpVars, scrapeVars, cleanVars, transformVars, lockVars,
    roundTripVars, runVars, schedVars, evalVars, extractVars,
    stringVars, gaugeVars>>
notRunVars == <<httpVars, scrapeVars, cleanVars, transformVars, lockVars,
    roundTripVars, csvVars, schedVars, evalVars, extractVars,
    stringVars, gaugeVars>>
notSchedVars == <<httpVars, scrapeVars, cleanVars, transformVars, lockVars,
    roundTripVars, csvVars, runVars, evalVars, extractVars,
    stringVars, gaugeVars>>
notEvalVars == <<httpVars, scrapeVars, cleanVars, transformVars, lockVars,
    roundTripVars, csvVars, runVars, schedVars, extractVars,
    stringVars, gaugeVars>>
notExtractVars == <<httpVars, scrapeVars, cleanVars, transformVars, lockVars,
    roundTripVars, csvVars, runVars, schedVars, evalVars, stringVars,
    gaugeVars>>
notStringVars == <<httpVars, scrapeVars, cleanVars, transformVars, lockVars,
    roundTripVars, csvVars, runVars, schedVars, evalVars, extractVars,
    gaugeVars>>
notGaugeVars == <<httpVars, scrapeVars, cleanVars, transformVars, lockVars,
    roundTripVars, csvVars, runVars, schedVars, evalVars, extractVars,
    stringVars>>

\* ------------------------------------------------------------------------
\* HTTPClient (src/http_client.py)
\* ------------------------------------------------------------------------
Tasks == 1..Len(urls)

\* What one attempt of fetch can end in.
\*   ok        2xx response
\*   transient httpx.RequestError (timeouts, connection errors)
\*   status    httpx.HTTPStatusError from raise_for_status
\*   other     any other Exception
AttemptOutcomes == {"ok", "transient", "status", "other"}

\* The exception class an attempt raises.
ExceptionOf(o) ==
    CASE o = "transient" -> "RequestError"
      [] o = "status"    -> "HTTPStatusError"
      [] o = "other"     -> "Exception"

\* retry=retry_if_exception_type((RequestError, TimeoutException, NetworkError)):
\* TimeoutException and NetworkError derive from RequestError; HTTPStatusError
\* derives from HTTPError only.
RetryAllExceptions(exc) == exc \in {"RequestError", "HTTPStatusError", "Exception"}
RetryIfExceptionType(exc) == exc = "RequestError"

\* stop=stop_after_attempt(3)
StopCondition(n) == n >= StopAfterAttempt

\* tenacity with reraise left at its default: once stop fires the last
\* exception is wrapped in RetryError.
ExhaustedError(exc) == "RetryError"

\* `except Exception` of fetch_with_semaphore: every class above derives
\* from Exception.
CatchesHttpxOnly(exc) == exc \in {"RequestError", "HTTPStatusError"}
CatchesException(exc) == exc \in {"RequestError", "HTTPStatusError", "Exception", "RetryError"}

\* async with self._request_lock: the lock can be taken only when free.
LockAlwaysFree(l) == TRUE
LockFree(l) == l = 0

\* async with semaphore: a permit can be taken only when one is left.
PermitAlways(s) == TRUE
PermitAvailable(s) == s > 0

\* sleep_time = self.rate_limit - time_since_last + random.uniform(0, 0.1)
SleepTime(time_since_last, jitter) == RateLimitTicks - time_since_last + jitter

\* The scraper before any Scraper exists.
ScrapeIdle ==
    /\ js_renderer_available = FALSE
    /\ start_url_is_str = TRUE
    /\ target_config = None
    /\ urls_to_process = <<>>
    /\ processed_urls = {}
    /\ idx = 0
    /\ items = <<>>
    /\ visit_log = <<>>
    /\ pending_at_failure = {}
    /\ scrape_pc = "idle"
    /\ scrape_error = None

\* The cleaner before any DataCleaner exists.
CleanIdle ==
    /\ cleaner_config = None
    /\ cleaning_config = <<>>
    /\ clean_input = <<>>
    /\ clean_once = <<>>
    /\ clean_twice = <<>>
    /\ unique_items = <<>>
    /\ clean_pc = "idle"

\* The transformer before transform_data is called.
TransformIdle ==
    /\ transformer_config = None
    /\ transform_input = <<>>
    /\ mapped_items = <<>>
    /\ typed_items = <<>>
    /\ transform_failed = <<>>
    /\ transformed_items = <<>>
    /\ transform_pc = "idle"

\* The storage lock before any adapter exists.
LockIdle ==
    /\ same_loop = TRUE
    /\ adapter = None
    /\ lock_locked = FALSE
    /\ lock_waiters = <<>>
    /\ lock_loop = 0
    /\ lock_woken = {}
    /\ call_op = <<>>
    /\ call_pc = <<>>
    /\ call_step = <<>>
    /\ call_result = <<>>
    /\ io_log = <<>>

\* The backends before any store exists.
RoundTripIdle ==
    /\ storage_type = None
    /\ saved_items = <<>>
    /\ store = <<>>
    /\ loaded_items = <<>>
    /\ roundtrip_pc = "idle"

\* The CSV file before any CSVStorage exists.
CsvIdle ==
    /\ csv_mode = None
    /\ file_exists = FALSE
    /\ csv_file = <<>>
    /\ since_clear = <<>>
    /\ saves_since_clear = 0
    /\ csv_calls = 0

\* The processor before run_target_once is called.
RunIdle ==
    /\ run_pc = "idle"
    /\ dry_run = FALSE
    /\ has_notifier = FALSE
    /\ scraped_count = 0
    /\ processed_count = 0
    /\ transformed_count = 0
    /\ save_success = None
    /\ saved_count = 0
    /\ run_pending = None
    /\ run_result = None
    /\ run_escaped = FALSE

\* The scheduler before any SchedulerManager exists.
SchedIdle ==
    /\ scheduler_running = FALSE
    /\ job_store = {}
    /\ interval = <<>>
    /\ until_fire = <<>>
    /\ paused = <<>>
    /\ pause_called = <<>>
    /\ run_state = <<>>
    /\ failed_last = <<>>
    /\ job_stats = None
    /\ trigger = <<>>
    /\ active_jobs = {}
    /\ last_run = <<>>

\* The evaluator before any call of evaluate_lambda.
EvalIdle ==
    /\ eval_lambda_str = [starts_with_lambda |-> FALSE, params |-> 0,
                          body |-> <<>>]
    /\ eval_pc = "idle"
    /\ eval_at = 0
    /\ eval_obj = None
    /\ eval_reached = {}
    /\ eval_result = None

\* The extractor before any page is parsed.
ExtractIdle ==
    /\ selectors = <<>>
    /\ target_name = None
    /\ run_id = None
    /\ source_url = None
    /\ item_elements = <<>>
    /\ element_at = 0
    /\ page_items = <<>>
    /\ extract_log = <<>>
    /\ utcnow = 0
    /\ extract_pc = "idle"

\* No call of _clean_string on its own.
StringIdle ==
    /\ clean_value = <<>>
    /\ clean_result = <<>>
    /\ clean_string_pc = "idle"

\* No run_target_once fired by a scheduler job.
GaugeIdle ==
    /\ active_runs = <<>>
    /\ job_target = <<>>
    /\ once_pc = <<>>
    /\ once_success = <<>>

HttpInit ==
    /\ max_retries \in {2, 3}
    /\ now = RateLimitTicks
    /\ last_request_time = 0
    /\ request_lock = 0
    /\ \E n \in 1..MaxUrls : urls = [i \in 1..n |-> ToString(i)]
    /\ max_concurrent \in 1..MaxConcurrentBound
    /\ semaphore = max_concurrent
    /\ pc = [t \in Tasks |-> "pending"]
    /\ attempt_number = [t \in Tasks |-> 0]
    /\ wakeAt = [t \in Tasks |-> 0]
    /\ outcomes = [t \in Tasks |-> <<>>]
    /\ raised = [t \in Tasks |-> None]
    /\ results = [t \in Tasks |-> [kind |-> "none", url |-> None, error |-> None]]
    /\ valid_results = <<>>
    /\ fm_pc = "gathering"
    /\ gate_passes = 0

\* The clock advances.
Tick ==
    /\ now < MaxTime
    /\ now' = now + 1
    /\ UNCHANGED <<max_retries, last_request_time, request_lock, urls,
                   max_concurrent, semaphore, pc, attempt_number, wakeAt,
                   outcomes, raised, results, valid_results, fm_pc, gate_passes>>
    /\ UNCHANGED notHttpVars

\* fetch_with_semaphore: `async with semaphore`, then the first attempt of
\* self.fetch starts and waits for the rate gate.
AcquireSemaphore(t) ==
    /\ pc[t] = "pending"
    /\ PermitAvailable(semaphore)
    /\ semaphore' = semaphore - 1
    /\ attempt_number' = [attempt_number EXCEPT ![t] = 1]
    /\ pc' = [pc EXCEPT ![t] = "lockwait"]
    /\ UNCHANGED <<max_retries, now, last_request_time, request_lock, urls,
                   max_concurrent, wakeAt, outcomes, raised, results,
                   valid_results, fm_pc, gate_passes>>
    /\ UNCHANGED notHttpVars

\* _apply_rate_limit: take the lock and read the clock and the timestamp.
\* Early enough: sleep inside the lock.  Otherwise stamp and leave.
EnterGate(t) ==
    /\ pc[t] = "lockwait"
    /\ LockFree(request_lock)
    /\ LET current_time == now
           time_since_last == current_time - last_request_time
       IN IF time_since_last < RateLimitTicks
          THEN \E jitter \in 0..MaxJitter :
                 /\ wakeAt' = [wakeAt EXCEPT ![t] = now + SleepTime(time_since_last, jitter)]
                 /\ request_lock' = t
                 /\ pc' = [pc EXCEPT ![t] = "sleeping"]
                 /\ UNCHANGED <<last_request_time, gate_passes>>
          ELSE /\ last_request_time' = now
               /\ gate_passes' = gate_passes + 1
               /\ request_lock' = 0
               /\ pc' = [pc EXCEPT ![t] = "requesting"]
               /\ UNCHANGED wakeAt
    /\ UNCHANGED <<max_retries, now, urls, max_concurrent, semaphore,
                   attempt_number, outcomes, raised, results, valid_results,
                   fm_pc>>
    /\ UNCHANGED notHttpVars

\* _apply_rate_limit after asyncio.sleep: stamp the timestamp, release.
LeaveGate(t) ==
    /\ pc[t] = "sleeping"
    /\ now >= wakeAt[t]
    /\ last_request_time' = now
    /\ gate_passes' = gate_passes + 1
    /\ request_lock' = 0
    /\ pc' = [pc EXCEPT ![t] = "requesting"]
    /\ UNCHANGED <<max_retries, now, urls, max_concurrent, semaphore,
                   attempt_number, wakeAt, outcomes, raised, results,
                   valid_results, fm_pc>>
    /\ UNCHANGED notHttpVars

\* The record fetch_with_semaphore hands to gather for an outcome of fetch.
TaskResult(t, exc, response_url) ==
    IF exc = None
    THEN [kind |-> "success", url |-> response_url, error |-> None]
    ELSE IF CatchesException(exc)
         THEN [kind |-> "error", url |-> urls[t], error |-> exc]
         ELSE [kind |-> "exception", url |-> None, error |-> exc]

\* A fetch_with_semaphore that ended without leaving `async with semaphore`.
FinishHoldingPermit(t, exc, response_url) ==
    /\ raised' = [raised EXCEPT ![t] = exc]
    /\ results' = [results EXCEPT ![t] = TaskResult(t, exc, response_url)]
    /\ semaphore' = semaphore
    /\ pc' = [pc EXCEPT ![t] = "done"]

\* fetch ends (returns or raises) and fetch_with_semaphore ends with it:
\* the permit is returned and the task's result is fixed.
Finish(t, exc, response_url) ==
    /\ raised' = [raised EXCEPT ![t] = exc]
    /\ results' = [results EXCEPT ![t] = TaskResult(t, exc, response_url)]
    /\ semaphore' = semaphore + 1
    /\ pc' = [pc EXCEPT ![t] = "done"]

\* self._client.request ... raise_for_status, and tenacity's decision.
Request(t) ==
    /\ pc[t] = "requesting"
    /\ \E o \in AttemptOutcomes :
         /\ outcomes' = [outcomes EXCEPT ![t] = Append(@, o)]
         /\ IF o = "ok"
            THEN \E response_url \in {urls[t], Redirected} :
                   Finish(t, None, response_url)
            ELSE LET exc == ExceptionOf(o) IN
                 IF ~RetryIfExceptionType(exc)
                 THEN Finish(t, exc, None)
                 ELSE IF StopCondition(attempt_number[t])
                      THEN Finish(t, ExhaustedError(exc), None)
                      ELSE /\ pc' = [pc EXCEPT ![t] = "backoff"]
                           /\ UNCHANGED <<raised, results, semaphore>>
    /\ UNCHANGED <<max_retries, now, last_request_time, request_lock, urls,
                   max_concurrent, attempt_number, wakeAt, valid_results,
                   fm_pc, gate_passes>>
    /\ UNCHANGED notHttpVars

\* tenacity's sleep between attempts is over: the next attempt starts.
Retry(t) ==
    /\ pc[t] = "backoff"
    /\ attempt_number' = [attempt_number EXCEPT ![t] = @ + 1]
    /\ pc' = [pc EXCEPT ![t] = "lockwait"]
    /\ UNCHANGED <<max_retries, now, last_request_time, request_lock, urls,
                   max_concurrent, semaphore, wakeAt, outcomes, raised,
                   results, valid_results, fm_pc, gate_passes>>
    /\ UNCHANGED notHttpVars

\* gather has every result: exceptions are filtered out, the rest returned.
ReturnResults ==
    /\ fm_pc = "gathering"
    /\ \A t \in Tasks : pc[t] = "done"
    /\ valid_results' = SelectSeq([t \in Tasks |-> results[t]],
                                  LAMBDA r : r.kind # "exception")
    /\ fm_pc' = "returned"
    /\ UNCHANGED <<max_retries, now, last_request_time, request_lock, urls,
                   max_concurrent, semaphore, pc, attempt_number, wakeAt,
                   outcomes, raised, results, gate_passes>>
    /\ UNCHANGED notHttpVars

HttpNext ==
    \/ Tick
    \/ \E t \in Tasks : AcquireSemaphore(t)
    \/ \E t \in Tasks : EnterGate(t)
    \/ \E t \in Tasks : LeaveGate(t)
    \/ \E t \in Tasks : Request(t)
    \/ \E t \in Tasks : Retry(t)
    \/ ReturnResults

InitHTTP == HttpInit /\ ScrapeIdle /\ CleanIdle /\ TransformIdle /\ LockIdle
    /\ RoundTripIdle /\ CsvIdle /\ RunIdle /\ SchedIdle /\ EvalIdle
    /\ ExtractIdle /\ StringIdle /\ GaugeIdle

SpecHTTP == InitHTTP /\ [][HttpNext]_vars

\* ------------------------------------------------------------------------
\* Claims about HTTPClient
\* ------------------------------------------------------------------------
AllTransient(t) ==
    /\ Len(outcomes[t]) > 0
    /\ \A i \in 1..Len(outcomes[t]) : outcomes[t][i] = "transient"

InFlight == {t \in Tasks : pc[t] \in {"lockwait", "sleeping", "requesting", "backoff"}}

\* C1: with max_retries = 3, a fetch whose every attempt ended in a
\* transient network error has made exactly 3 attempts and surfaced the
\* transient error class itself to its caller.
C1_TransientSurfaced ==
    \A t \in Tasks :
        (max_retries = 3 /\ pc[t] = "done" /\ AllTransient(t))
            => (Len(outcomes[t]) = 3 /\ raised[t] = "RequestError")

\* C2: an attempt that ends in HTTPStatusError is the last attempt of its
\* fetch; the error is raised to the caller as it is, and a status error on
\* the first attempt means exactly one attempt was made.
C2_StatusNotRetried ==
    \A t \in Tasks : \A i \in 1..Len(outcomes[t]) :
        outcomes[t][i] = "status"
            => /\ i = Len(outcomes[t])
               /\ attempt_number[t] = i
               /\ pc[t] = "done"
               /\ raised[t] = "HTTPStatusError"

C2_Witness ==
    \E t \in Tasks : outcomes[t] = <<"status">> /\ pc[t] = "done"

C4_ConcurrencyCap == Cardinality(InFlight) <= max_concurrent

C4_Witness ==
    /\ Cardinality(InFlight) = max_concurrent
    /\ semaphore = 0
    /\ \E t \in Tasks : pc[t] = "pending"

\* C5: fetch_multiple returns one record per requested URL: record i is
\* the success record of URL i when its fetch returned, and an error record
\* carrying URL i when its fetch raised.
C5_OneOutcomePerUrl ==
    fm_pc = "returned"
        => /\ Len(valid_results) = Len(urls)
           /\ \A i \in 1..Len(urls) :
                IF raised[i] = None
                THEN valid_results[i].kind = "success"
                ELSE /\ valid_results[i].kind = "error"
                     /\ valid_results[i].url = urls[i]
                     /\ valid_results[i].error = raised[i]

C5_Witness ==
    /\ fm_pc = "returned"
    /\ \E i \in Tasks, j \in Tasks :
        /\ raised[i] # None
        /\ valid_results[i].kind = "error"
        /\ raised[j] = None

\* ------------------------------------------------------------------------
\* Scraper (src/scraper.py)
\* ------------------------------------------------------------------------
Pages == {ToString(i) : i \in 1..NumPages}

SeqsUpTo(S, n) == UNION {[1..k -> S] : k \in 0..n}

\* The start_urls lists.  URLs are interchangeable names, so the lists are
\* taken up to renaming: the first URL is page 1 and every URL is an
\* earlier one or the next new page.  Duplicates are included.
FirstUse(f) ==
    \A i \in DOMAIN f :
        \/ f[i] = 1 /\ \A j \in 1..(i - 1) : f[j] = 1
        \/ \E j \in 1..(i - 1) : f[j] = f[i] \/ f[j] + 1 = f[i]

StartUrlLists ==
    {[i \in DOMAIN f |-> ToString(f[i])] :
        f \in {g \in SeqsUpTo(1..NumPages, MaxStart) : FirstUse(g)}}

\* TargetConfig.start_urls is List[HttpUrl].  With pydantic 1 an HttpUrl is
\* a str; with pydantic 2 it is a Url object that equals no str and hashes
\* unlike one.  Every URL the traversal itself appends is a str (urljoin).
\* `url in processed_urls`: processed_urls holds str(url) values only.
InProcessedAsStr(entry, processed) == entry.url \in processed
InProcessed(entry, processed) == entry.is_str /\ entry.url \in processed

\* `if not self._js_renderer_available: raise JSError(...)`
RendererNeverMissing(available) == FALSE
RendererMissing(available) == ~available

\* `if next_url and next_url not in processed_urls`
ShouldEnqueue(next_url, processed) == next_url # None /\ next_url \notin processed

\* The traversal without its max_pages break.
NeverExceeds(frontier, max_pages) == FALSE

\* `if len(urls_to_process) > target_config.pagination.max_pages: break`
ExceedsMaxPages(frontier, max_pages) == Len(frontier) > max_pages

\* `except Exception as e: ... continue`
OnPageFailureRaise == "raise"
OnPageFailure == "continue"

\* One extracted item: its provenance is the page it came from.
PageItems(url, n) == [k \in 1..n |-> [source_url |-> url]]

ScrapeInit ==
    /\ js_renderer_available \in BOOLEAN
    /\ start_url_is_str \in BOOLEAN
    /\ target_config \in [start_urls : StartUrlLists,
                          pagination_enabled : BOOLEAN,
                          max_pages : 1..MaxPagesBound,
                          js_render : BOOLEAN]
    /\ urls_to_process = <<>>
    /\ processed_urls = {}
    /\ idx = 0
    /\ items = <<>>
    /\ visit_log = <<>>
    /\ pending_at_failure = {}
    /\ scrape_pc = "idle"
    /\ scrape_error = None

\* scrape_target: dispatch on js_render.  _scrape_with_js raises JSError
\* without a renderer and otherwise falls back to _scrape_static, whose
\* loop starts on a copy of start_urls.
ScrapeTarget ==
    /\ scrape_pc = "idle"
    /\ IF target_config.js_render /\ RendererMissing(js_renderer_available)
       THEN /\ scrape_pc' = "raised"
            /\ scrape_error' = "JSError"
            /\ UNCHANGED <<urls_to_process, idx>>
       ELSE /\ urls_to_process' =
                [i \in 1..Len(target_config.start_urls) |->
                    [url |-> target_config.start_urls[i],
                     is_str |-> start_url_is_str]]
            /\ idx' = 1
            /\ scrape_pc' = "loop"
            /\ UNCHANGED scrape_error
    /\ UNCHANGED <<js_renderer_available, start_url_is_str, target_config,
                   processed_urls, items, visit_log, pending_at_failure>>
    /\ UNCHANGED notScrapeVars

\* `if url in processed_urls: continue`
SkipProcessed ==
    /\ scrape_pc = "loop"
    /\ idx <= Len(urls_to_process)
    /\ InProcessed(urls_to_process[idx], processed_urls)
    /\ idx' = idx + 1
    /\ UNCHANGED <<js_renderer_available, start_url_is_str, target_config,
                   urls_to_process, processed_urls, items, visit_log,
                   pending_at_failure, scrape_pc, scrape_error>>
    /\ UNCHANGED notScrapeVars

\* One iteration whose fetch or parse raises: logged, next URL.
VisitFailed ==
    /\ scrape_pc = "loop"
    /\ idx <= Len(urls_to_process)
    /\ ~InProcessed(urls_to_process[idx], processed_urls)
    /\ LET url == urls_to_process[idx].url IN
        /\ processed_urls' = processed_urls \cup {url}
        /\ \E o \in {"fetch_failed", "parse_failed"} :
              visit_log' = Append(visit_log, [url |-> url, outcome |-> o, n |-> 0])
        /\ pending_at_failure' = pending_at_failure \cup
              {urls_to_process[k].url : k \in (idx + 1)..Len(urls_to_process)}
    /\ IF OnPageFailure = "continue"
       THEN /\ idx' = idx + 1
            /\ UNCHANGED <<scrape_pc, scrape_error>>
       ELSE /\ scrape_pc' = "raised"
            /\ scrape_error' = "Exception"
            /\ UNCHANGED idx
    /\ UNCHANGED <<js_renderer_available, start_url_is_str, target_config,
                   urls_to_process, items>>
    /\ UNCHANGED notScrapeVars

\* One iteration that fetches and parses its page: the page's items are
\* collected and, with pagination enabled, the next link is followed.
VisitPageWith(next_urls) ==
    /\ scrape_pc = "loop"
    /\ idx <= Len(urls_to_process)
    /\ ~InProcessed(urls_to_process[idx], processed_urls)
    /\ LET url == urls_to_process[idx].url
           processed == processed_urls \cup {url}
       IN /\ processed_urls' = processed
          /\ \E n \in 0..MaxItemsPerPage :
                /\ items' = items \o PageItems(url, n)
                /\ visit_log' = Append(visit_log, [url |-> url, outcome |-> "ok", n |-> n])
          /\ \E next_url \in next_urls :
                IF target_config.pagination_enabled /\ ShouldEnqueue(next_url, processed)
                THEN /\ urls_to_process' =
                          Append(urls_to_process, [url |-> next_url, is_str |-> TRUE])
                     /\ IF ExceedsMaxPages(urls_to_process', target_config.max_pages)
                        THEN scrape_pc' = "done" /\ UNCHANGED idx
                        ELSE idx' = idx + 1 /\ UNCHANGED scrape_pc
                ELSE /\ idx' = idx + 1
                     /\ UNCHANGED <<urls_to_process, scrape_pc>>
    /\ UNCHANGED <<js_renderer_available, start_url_is_str, target_config,
                   pending_at_failure, scrape_error>>
    /\ UNCHANGED notScrapeVars

\* A page of the site: its next link, if any, leads to a page of the site.
VisitPage == VisitPageWith(Pages \cup {None})

\* The for loop ran off the end of the list: return items.
FinishStatic ==
    /\ scrape_pc = "loop"
    /\ idx > Len(urls_to_process)
    /\ scrape_pc' = "done"
    /\ UNCHANGED <<js_renderer_available, start_url_is_str, target_config,
                   urls_to_process, processed_urls, idx, items, visit_log,
                   pending_at_failure, scrape_error>>
    /\ UNCHANGED notScrapeVars

ScrapeNext ==
    \/ ScrapeTarget
    \/ SkipProcessed
    \/ VisitFailed
    \/ VisitPage
    \/ FinishStatic

\* The HTTP client while only the scraper is observed.
HttpIdle ==
    /\ max_retries = 3
    /\ now = 0
    /\ last_request_time = 0
    /\ request_lock = 0
    /\ urls = <<>>
    /\ max_concurrent = 1
    /\ semaphore = 1
    /\ pc = <<>>
    /\ attempt_number = <<>>
    /\ wakeAt = <<>>
    /\ outcomes = <<>>
    /\ raised = <<>>
    /\ results = <<>>
    /\ valid_results = <<>>
    /\ fm_pc = "idle"
    /\ gate_passes = 0

InitScrape == ScrapeInit /\ HttpIdle /\ CleanIdle /\ TransformIdle /\ LockIdle
    /\ RoundTripIdle /\ CsvIdle /\ RunIdle /\ SchedIdle /\ EvalIdle
    /\ ExtractIdle /\ StringIdle /\ GaugeIdle

SpecScrape == InitScrape /\ [][ScrapeNext]_vars

\* ------------------------------------------------------------------------
\* Claims about Scraper
\* ------------------------------------------------------------------------
RECURSIVE ItemsOfLog(_)
ItemsOfLog(log) ==
    IF log = <<>> THEN <<>>
    ELSE PageItems(Head(log).url, Head(log).n) \o ItemsOfLog(Tail(log))

\* The loop ran to the end of the frontier (it did not break).
RanToEnd == scrape_pc = "done" /\ idx > Len(urls_to_process)

\* C6: within one traversal no URL is fetched more than once.
C6_NoRefetch ==
    \A i \in 1..Len(visit_log) : \A j \in 1..Len(visit_log) :
        i # j => visit_log[i].url # visit_log[j].url

\* C7: with pagination enabled the number of pages fetched never exceeds
\* pagination.max_pages.
C7_AtMostMaxPages ==
    (scrape_pc # "idle" /\ target_config.pagination_enabled)
        => Len(visit_log) <= target_config.max_pages

SP == "SP"
CTL == "CTL"
Chars == {"a", SP, CTL}
TAB == "TAB"
Whitespace == {SP, TAB}
ControlChars == {CTL}

\* A field value: None or a str.
NoneValue == [kind |-> "none", s |-> <<>>]
Str(s) == [kind |-> "str", s |-> s]

Strings == UNION {[1..k -> Chars] : k \in 0..MaxStrLen}

Fields == {"text", "author"}

\* item.get(key)
Get(item, key) == IF key \in DOMAIN item THEN item[key] ELSE NoneValue

\* value.strip()
RECURSIVE LStrip(_)
LStrip(s) ==
    IF s # <<>> /\ Head(s) \in Whitespace THEN LStrip(Tail(s)) ELSE s

RECURSIVE RStrip(_)
RStrip(s) ==
    IF s # <<>> /\ s[Len(s)] \in Whitespace
    THEN RStrip(SubSeq(s, 1, Len(s) - 1))
    ELSE s

Strip(s) == RStrip(LStrip(s))

\* cleaned.replace('  ', ' '): one left-to-right pass.
RECURSIVE ReplaceDoubleSpace(_)
ReplaceDoubleSpace(s) ==
    IF Len(s) < 2 THEN s
    ELSE IF s[1] = SP /\ s[2] = SP
         THEN <<SP>> \o ReplaceDoubleSpace(SubSeq(s, 3, Len(s)))
         ELSE <<s[1]>> \o ReplaceDoubleSpace(Tail(s))

HasDoubleSpace(s) == \E i \in 1..(Len(s) - 1) : s[i] = SP /\ s[i + 1] = SP

\* while '  ' in cleaned: cleaned = cleaned.replace('  ', ' ')
RECURSIVE CollapseSpaces(_)
CollapseSpaces(s) ==
    IF HasDoubleSpace(s) THEN CollapseSpaces(ReplaceDoubleSpace(s)) ELSE s

\* ''.join(char for char in cleaned if ord(char) >= 32 or char in '\n\t')
RemoveControl(s) == SelectSeq(s, LAMBDA c : c \notin ControlChars)

\* _clean_string: strip, collapse runs of spaces, drop control characters.
CleanString(s) == RemoveControl(CollapseSpaces(Strip(s)))

\* _clean_item
CleanItem(item) ==
    [f \in DOMAIN item |->
        IF item[f].kind = "str" THEN Str(CleanString(item[f].s)) ELSE item[f]]

\* `value is None or value == ""`
IsMissing(v) == v = NoneValue \/ v = Str(<<>>)

\* _fill_missing_values
FillItem(item, default_values) ==
    [f \in DOMAIN item \cup DOMAIN default_values |->
        IF f \in DOMAIN default_values /\ (f \notin DOMAIN item \/ IsMissing(item[f]))
        THEN default_values[f]
        ELSE item[f]]

FillMissingValues(its, default_values) ==
    [i \in 1..Len(its) |-> FillItem(its[i], default_values)]

\* _drop_missing_values: the required fields are those of self.config.
RequiredFields(self_config) ==
    {f \in DOMAIN self_config.field_validation :
        self_config.field_validation[f].required}

DropMissingValues(its, self_config) ==
    IF RequiredFields(self_config) = {}
    THEN its
    ELSE SelectSeq(its, LAMBDA item :
            ~\E f \in RequiredFields(self_config) : IsMissing(Get(item, f)))

\* _interpolate_missing_values
InterpolateMissingValues(its, default_values) ==
    FillMissingValues(its, default_values)

\* handle_missing: Optional[HandleMissingConfig] = None
NoHandleMissing == [strategy |-> None, default_values |-> <<>>]

\* _handle_missing_values
HandleMissingValues(its, missing_config, self_config) ==
    CASE missing_config.strategy = "drop" ->
            DropMissingValues(its, self_config)
      [] missing_config.strategy = "default" ->
            FillMissingValues(its, missing_config.default_values)
      [] missing_config.strategy = "interpolate" ->
            InterpolateMissingValues(its, missing_config.default_values)
      [] OTHER -> its

\* md5(str(sorted(hash_input.items()))): two items hash alike exactly when
\* they agree on item.get(key) for every duplicate key.
KeyRange(keys) == {keys[i] : i \in 1..Len(keys)}
ItemHash(item, duplicate_keys) ==
    [k \in KeyRange(duplicate_keys) |-> Get(item, k)]

\* _remove_duplicates: first occurrence of every hash, in input order.
RECURSIVE RemoveDuplicatesFrom(_, _, _)
RemoveDuplicatesFrom(its, duplicate_keys, seen_hashes) ==
    IF its = <<>> THEN <<>>
    ELSE LET item_hash == ItemHash(Head(its), duplicate_keys) IN
         IF item_hash \notin seen_hashes
         THEN <<Head(its)>> \o
              RemoveDuplicatesFrom(Tail(its), duplicate_keys,
                                   seen_hashes \cup {item_hash})
         ELSE RemoveDuplicatesFrom(Tail(its), duplicate_keys, seen_hashes)

\* A deduplication that keeps the last occurrence of every hash instead.
RECURSIVE RemoveDuplicatesKeepLast(_, _)
RemoveDuplicatesKeepLast(its, duplicate_keys) ==
    IF its = <<>> THEN <<>>
    ELSE IF \E j \in 1..Len(Tail(its)) :
                ItemHash(Tail(its)[j], duplicate_keys)
                    = ItemHash(Head(its), duplicate_keys)
         THEN RemoveDuplicatesKeepLast(Tail(its), duplicate_keys)
         ELSE <<Head(its)>> \o RemoveDuplicatesKeepLast(Tail(its), duplicate_keys)

RemoveDuplicates(its, duplicate_keys) ==
    RemoveDuplicatesFrom(its, duplicate_keys, {})

\* _validate_fields: self.item_validator is ItemValidator itself (a model
\* without fields, see create_from_config), so ItemValidator(**item).dict()
\* is the empty dict for every item.
EmptyItem == [f \in {} |-> NoneValue]

HasItemValidator(self_config) == DOMAIN self_config.field_validation # {}

ValidateFields(its, self_config) ==
    IF ~HasItemValidator(self_config)
    THEN its
    ELSE [i \in 1..Len(its) |-> EmptyItem]

\* `if config.handle_missing` (Optional[HandleMissingConfig])
HasHandleMissing(config) == config.handle_missing # NoHandleMissing

\* config = cleaning_config or self.config
ActiveConfig(self_config, override) ==
    IF override = <<>> THEN self_config ELSE override[1]

\* clean_data: the steps are chosen by config, while _drop_missing_values
\* and _validate_fields read self.config and self.item_validator.
CleanData(its, self_config, override) ==
    LET config == ActiveConfig(self_config, override)
        handled ==
            IF HasHandleMissing(config)
            THEN HandleMissingValues(its, config.handle_missing, self_config)
            ELSE its
        deduped ==
            IF config.remove_duplicates /\ config.duplicate_keys # <<>>
            THEN RemoveDuplicates(handled, config.duplicate_keys)
            ELSE handled
        validated ==
            IF DOMAIN config.field_validation # {}
            THEN ValidateFields(deduped, self_config)
            ELSE deduped
        truthy == SelectSeq(validated, LAMBDA item : DOMAIN item # {})
    IN [i \in 1..Len(truthy) |-> CleanItem(truthy[i])]

\* The inputs: items whose text is absent, None or any string, and items
\* that also carry an author.
TextValues == {NoneValue} \cup {Str(s) : s \in Strings}
AuthorValues == {Str(<<"a">>)}

TextItems == {<<>>} \cup {[f \in {"text"} |-> tv] : tv \in TextValues}

AuthorItems ==
    {[f \in {"author"} |-> av] : av \in AuthorValues}
    \cup {[f \in Fields |-> IF f = "text" THEN Str(<<"a">>) ELSE av] :
            av \in AuthorValues}

InputItems == TextItems \cup AuthorItems

DefaultValueMaps == {[f \in {"text"} |-> Str(<<"a">>)]}

HandleMissingConfigs ==
    {NoHandleMissing} \cup [strategy : {"drop", "default", "interpolate"},
                 default_values : DefaultValueMaps]

FieldValidations ==
    {EmptyItem, [f \in {"text"} |-> [required |-> TRUE, type |-> "string"]]}

DuplicateSettings ==
    {[remove_duplicates |-> FALSE, duplicate_keys |-> <<"text">>],
     [remove_duplicates |-> TRUE, duplicate_keys |-> <<"text">>],
     [remove_duplicates |-> TRUE, duplicate_keys |-> <<"text", "author">>]}

CleanerConfigs ==
    {[remove_duplicates |-> d.remove_duplicates,
      duplicate_keys |-> d.duplicate_keys,
      handle_missing |-> h,
      field_validation |-> v] :
        d \in DuplicateSettings, h \in HandleMissingConfigs, v \in FieldValidations}

\* The cleaning_config arguments: None, or a drop policy that does not
\* deduplicate.
CleaningConfigs ==
    {<<>>} \cup {<<c>> : c \in {o \in CleanerConfigs :
                                /\ o.handle_missing.strategy = "drop"
                                /\ ~o.remove_duplicates}}

CleanInit ==
    /\ cleaner_config \in CleanerConfigs
    /\ cleaning_config \in CleaningConfigs
    /\ clean_input \in SeqsUpTo(InputItems, MaxItems)
    /\ clean_once = <<>>
    /\ clean_twice = <<>>
    /\ unique_items = <<>>
    /\ clean_pc = "idle"

\* cleaner.clean_data(items)
CleanFirst ==
    /\ clean_pc = "idle"
    /\ clean_once' = CleanData(clean_input, cleaner_config, cleaning_config)
    /\ clean_pc' = "once"
    /\ UNCHANGED <<cleaner_config, cleaning_config, clean_input, clean_twice,
                   unique_items>>
    /\ UNCHANGED notCleanVars

\* cleaner.clean_data(cleaned)
CleanAgain ==
    /\ clean_pc = "once"
    /\ clean_twice' = CleanData(clean_once, cleaner_config, cleaning_config)
    /\ clean_pc' = "twice"
    /\ UNCHANGED <<cleaner_config, cleaning_config, clean_input, clean_once,
                   unique_items>>
    /\ UNCHANGED notCleanVars

CleanNext ==
    \/ CleanFirst
    \/ CleanAgain

InitClean == CleanInit /\ HttpIdle /\ ScrapeIdle /\ TransformIdle /\ LockIdle
    /\ RoundTripIdle /\ CsvIdle /\ RunIdle /\ SchedIdle /\ EvalIdle
    /\ ExtractIdle /\ StringIdle /\ GaugeIdle

SpecClean == InitClean /\ [][CleanNext]_vars

\* ------------------------------------------------------------------------
\* Claims about DataCleaner
\* ------------------------------------------------------------------------
\* C10: cleaning is idempotent: clean_data(clean_data(X)) = clean_data(X)
\* for every item list X and every fixed policy.
C10_Idempotent == clean_pc = "twice" => clean_twice = clean_once

\* The policy in force for the clean_data call and its duplicate keys.
Policy == ActiveConfig(cleaner_config, cleaning_config)

Deduplicating ==
    /\ clean_pc \in {"once", "twice"}
    /\ Policy.remove_duplicates
    /\ Policy.duplicate_keys # <<>>

\* C11: with remove_duplicates enabled the output of clean_data holds no
\* two items with identical values on all configured duplicate_keys.
C11_NoDuplicateOutput ==
    Deduplicating =>
        \A i \in 1..Len(clean_once) : \A j \in 1..Len(clean_once) :
            i # j => ItemHash(clean_once[i], Policy.duplicate_keys)
                        # ItemHash(clean_once[j], Policy.duplicate_keys)

\* C12: under the drop strategy no item in which a field that the policy
\* in force declares required is absent, None or empty appears in the
\* output of clean_data, also when the policy is the cleaning_config
\* argument.
C12_DropRequired ==
    (clean_pc \in {"once", "twice"} /\ Policy.handle_missing.strategy = "drop")
        => \A i \in 1..Len(clean_once) : \A f \in RequiredFields(Policy) :
                ~IsMissing(Get(clean_once[i], f))

\* C13: under the default strategy every field of the default-value map is
\* present, not None and not empty in every item of the output of
\* clean_data, and the fill leaves the fields outside the map as they were.
C13_DefaultsFilled ==
    (clean_pc \in {"once", "twice"} /\ Policy.handle_missing.strategy = "default")
        => LET default_values == Policy.handle_missing.default_values
               filled == FillMissingValues(clean_input, default_values)
           IN /\ \A i \in 1..Len(clean_once) : \A f \in DOMAIN default_values :
                    /\ f \in DOMAIN clean_once[i]
                    /\ ~IsMissing(clean_once[i][f])
              /\ \A i \in 1..Len(clean_input) :
                    \A f \in DOMAIN clean_input[i] \ DOMAIN default_values :
                        filled[i][f] = clean_input[i][f]

\* An item satisfies the {required, type} rules when every required field
\* is present with a value of the declared type and every optional field
\* is absent, None or of the declared type.  The values here are None or
\* strings and the declared type is "string".
SatisfiesRules(item, field_validation) ==
    \A f \in DOMAIN field_validation :
        IF field_validation[f].required
        THEN f \in DOMAIN item /\ item[f].kind = "str"
        ELSE f \notin DOMAIN item \/ item[f].kind \in {"none", "str"}

\* C15: with field_validation configured (and nothing else) clean_data
\* returns exactly the items that satisfy every rule, with their
\* (normalized) field values: failing items are excluded, satisfying items
\* are retained.
C15_ValidRetained ==
    (/\ clean_pc \in {"once", "twice"}
     /\ DOMAIN Policy.field_validation # {}
     /\ ~HasHandleMissing(Policy)
     /\ ~Policy.remove_duplicates)
        => LET valid == SelectSeq(clean_input,
                            LAMBDA item : SatisfiesRules(item, Policy.field_validation))
           IN clean_once = [i \in 1..Len(valid) |-> CleanItem(valid[i])]

\* ------------------------------------------------------------------------
\* DataCleaner._remove_duplicates called on its own
\* ------------------------------------------------------------------------
\* The duplicate_keys arguments are those of the deduplicating policies.
DedupConfigs ==
    {c \in CleanerConfigs : /\ c.remove_duplicates
                            /\ c.handle_missing = NoHandleMissing
                            /\ c.field_validation = EmptyItem}

DedupInit ==
    /\ cleaner_config \in DedupConfigs
    /\ cleaning_config = <<>>
    /\ clean_input \in SeqsUpTo(InputItems, MaxItems)
    /\ clean_once = <<>>
    /\ clean_twice = <<>>
    /\ unique_items = <<>>
    /\ clean_pc = "idle"

\* cleaner._remove_duplicates(items, duplicate_keys)
RemoveDuplicatesCall ==
    /\ clean_pc = "idle"
    /\ unique_items' = RemoveDuplicates(clean_input, cleaner_config.duplicate_keys)
    /\ clean_pc' = "deduped"
    /\ UNCHANGED <<cleaner_config, cleaning_config, clean_input, clean_once,
                   clean_twice>>
    /\ UNCHANGED notCleanVars

DedupNext == RemoveDuplicatesCall

InitDedup == DedupInit /\ HttpIdle /\ ScrapeIdle /\ TransformIdle /\ LockIdle
    /\ RoundTripIdle /\ CsvIdle /\ RunIdle /\ SchedIdle /\ EvalIdle
    /\ ExtractIdle /\ StringIdle /\ GaugeIdle

SpecDedup == InitDedup /\ [][DedupNext]_vars

\* The positions of the items that no earlier item agrees with on every
\* duplicate key.
FirstOccurrences(its, duplicate_keys) ==
    {i \in 1..Len(its) :
        \A j \in 1..(i - 1) :
            ItemHash(its[j], duplicate_keys) # ItemHash(its[i], duplicate_keys)}

\* The k-th smallest of a set of positions.
NthOf(S, k) == CHOOSE i \in S : Cardinality({j \in S : j <= i}) = k

IntValue(n) == [kind |-> "int", n |-> n]
BoolValue(b) == [kind |-> "bool", b |-> b]

\* What a call ends in: a returned value or an exception.
Returned(v) == [raised |-> FALSE, value |-> v]
Raised == [raised |-> TRUE, value |-> NoneValue]

\* An item that is not a dict (None): item.copy() and `old_field in item`
\* raise on it.
NoneItem == NoneValue
IsDict(item) == item # NoneItem

\* d[k] = v on a dict
Put(d, k, v) == [f \in DOMAIN d \cup {k} |-> IF f = k THEN v ELSE d[f]]

\* field_mapping is a dict in insertion order: a sequence of pairs with
\* distinct old names.
OldFields(field_mapping) ==
    {field_mapping[i].old : i \in DOMAIN field_mapping}

\* for old_field, new_field in field_mapping.items():
\*     if old_field in item: mapped_item[new_field] = item[old_field]
RECURSIVE MapExisting(_, _, _)
MapExisting(item, field_mapping, mapped_item) ==
    IF field_mapping = <<>> THEN mapped_item
    ELSE LET pair == Head(field_mapping) IN
         MapExisting(item, Tail(field_mapping),
                     IF pair.old \in DOMAIN item
                     THEN Put(mapped_item, pair.new, item[pair.old])
                     ELSE mapped_item)

\* A second loop that keeps every field of the item, renamed or not.
KeepAllFields(item, field_mapping, mapped_item) ==
    [f \in DOMAIN mapped_item \cup DOMAIN item |->
        IF f \in DOMAIN item THEN item[f] ELSE mapped_item[f]]

\* for field, value in item.items():
\*     if field not in field_mapping: mapped_item[field] = value
KeepUnmapped(item, field_mapping, mapped_item) ==
    LET unmapped == DOMAIN item \ OldFields(field_mapping) IN
    [f \in DOMAIN mapped_item \cup unmapped |->
        IF f \in unmapped THEN item[f] ELSE mapped_item[f]]

\* _apply_field_mapping
ApplyFieldMapping(item, field_mapping) ==
    IF field_mapping = <<>>
    THEN item
    ELSE KeepUnmapped(item, field_mapping,
                      MapExisting(item, field_mapping, EmptyItem))

\* The characters of the strings handed to the transformer: a digit and a
\* letter.  No string over them holds whitespace, a sign or a dot, so
\* float(value) accepts exactly the non-empty strings of digits.
DigitChars == {ToString(d) : d \in 0..9}
TChars == {"1", "x"}

IsNumeric(s) == s # <<>> /\ \A i \in 1..Len(s) : s[i] \in DigitChars

DigitOf(c) == CHOOSE d \in 0..9 : ToString(d) = c

\* int(float(value)) of a string of digits
RECURSIVE IntOf(_)
IntOf(s) ==
    IF s = <<>> THEN 0
    ELSE 10 * IntOf(SubSeq(s, 1, Len(s) - 1)) + DigitOf(s[Len(s)])

\* str(n) of a natural number
RECURSIVE DigitsOf(_)
DigitsOf(n) ==
    IF n < 10 THEN <<ToString(n)>>
    ELSE DigitsOf(n \div 10) \o <<ToString(n % 10)>>

\* str(value)
StrOf(value) ==
    CASE value.kind = "str"  -> value.s
      [] value.kind = "int"  -> DigitsOf(value.n)
      [] value.kind = "bool" -> IF value.b THEN <<"T", "r", "u", "e">>
                                ELSE <<"F", "a", "l", "s", "e">>

\* value.lower() in ('true', '1', 'yes', 'on'), for strings over TChars
IsTrueString(s) == s = <<"1">>

\* _convert_type for the target types string, int and bool and for an
\* unknown target type (the else branch); float, array, dict and datetime
\* are not among the conversions tried.  A failure raises
\* TransformationError.
ConvertType(value, target_type) ==
    IF value = NoneValue THEN Returned(NoneValue)
    ELSE CASE target_type = "string" -> Returned(Str(StrOf(value)))
           [] target_type = "int" ->
                IF value.kind = "str"
                THEN IF IsNumeric(value.s)
                     THEN Returned(IntValue(IntOf(value.s)))
                     ELSE Raised
                ELSE IF value.kind = "bool"
                     THEN Returned(IntValue(IF value.b THEN 1 ELSE 0))
                     ELSE Returned(value)
           [] target_type = "bool" ->
                IF value.kind = "str"
                THEN Returned(BoolValue(IsTrueString(value.s)))
                ELSE IF value.kind = "int"
                     THEN Returned(BoolValue(value.n # 0))
                     ELSE Returned(value)
           [] OTHER -> Returned(value)

\* A failure handler that nulls the field instead.
FailedConversionNone(value) == NoneValue

\* except Exception: log a warning; converted_item[field] keeps its value
FailedConversion(value) == value

\* _apply_type_conversions: every field converts on its own.
ApplyTypeConversions(item, type_conversions) ==
    [f \in DOMAIN item |->
        IF f \in DOMAIN type_conversions /\ item[f] # NoneValue
        THEN LET converted == ConvertType(item[f], type_conversions[f]) IN
             IF converted.raised
             THEN FailedConversion(item[f])
             ELSE converted.value
        ELSE item[f]]

\* A custom function string: whether it starts with 'lambda' (and
\* compiles), how many parameters the lambda declares, and its body.
LenOfA == "len(item.get('a', ''))"
ItemC == "item['c']"

LambdaItem(body) == [is_lambda |-> TRUE, params |-> 1, body |-> body]
LambdaNoParam(body) == [is_lambda |-> TRUE, params |-> 0, body |-> body]
NotALambda(body) == [is_lambda |-> FALSE, params |-> 0, body |-> body]

\* The value of a body with `item` bound to the item.
EvalBody(body, item) ==
    CASE body = LenOfA ->
            LET v == IF "a" \in DOMAIN item THEN item["a"] ELSE Str(<<>>) IN
            IF v.kind = "str" THEN Returned(IntValue(Len(v.s))) ELSE Raised
      [] body = ItemC ->
            IF "c" \in DOMAIN item THEN Returned(item["c"]) ELSE Raised

\* SafeEvaluator.evaluate_lambda: func = eval(lambda_str, safe_globals)
\* with 'item' among the globals, then func() without an argument, which
\* is a TypeError for a lambda that declares a parameter.  Every exception
\* becomes TransformationError.
EvaluateLambda(lambda_str, item) ==
    IF ~lambda_str.is_lambda THEN Raised
    ELSE IF lambda_str.params # 0 THEN Raised
    ELSE EvalBody(lambda_str.body, item)

\* A failure handler that stores the empty string instead.
FailedFunctionEmpty(field_name) == Str(<<>>)

\* except Exception: transformed_item[field_name] = None
FailedFunction(field_name) == NoneValue

\* _apply_custom_functions: every function is evaluated on the item that
\* was passed in.
ApplyCustomFunctions(item, custom_functions) ==
    [f \in DOMAIN item \cup DOMAIN custom_functions |->
        IF f \in DOMAIN custom_functions
        THEN LET result == EvaluateLambda(custom_functions[f], item) IN
             IF result.raised THEN FailedFunction(f) ELSE result.value
        ELSE item[f]]

\* _transform_item, with its locals mapped_item and typed_item.  The
\* three steps catch their own failures; the call raises only on an item
\* that is not a dict.
TransformItem(item, config) ==
    IF ~IsDict(item)
    THEN [raised |-> TRUE, mapped_item |-> NoneItem, typed_item |-> NoneItem,
          final_item |-> NoneItem]
    ELSE LET mapped_item == ApplyFieldMapping(item, config.field_mapping)
             typed_item == ApplyTypeConversions(mapped_item, config.type_conversions)
         IN [raised |-> FALSE, mapped_item |-> mapped_item,
             typed_item |-> typed_item,
             final_item |-> ApplyCustomFunctions(typed_item, config.custom_functions)]

\* The inputs: None and the dicts over the fields a, b and c, where a is
\* None, numeric or not numeric, b is a string and c an int.
AValues == {NoneValue} \cup {Str(<<c>>) : c \in TChars}

DictItems ==
    UNION {{[f \in S |-> CASE f = "a" -> av
                          [] f = "b" -> Str(<<"x", "x">>)
                          [] f = "c" -> IntValue(2)] : av \in AValues} :
            S \in SUBSET {"a", "b", "c"}}

TransformItems == {NoneItem} \cup DictItems

Rename(old, new) == [old |-> old, new |-> new]

FieldMappings ==
    {<<>>,
     <<Rename("a", "b")>>,
     <<Rename("a", "t")>>,
     <<Rename("a", "b"), Rename("c", "b")>>,
     <<Rename("a", "b"), Rename("b", "a")>>}

TypeConversions ==
    {EmptyItem,
     [f \in {"b"} |-> "int"],
     [f \in {"a"} |-> "bool"],
     [f \in {"b", "c"} |-> IF f = "b" THEN "int" ELSE "string"]}

CustomFunctions ==
    {EmptyItem,
     [f \in {"d"} |-> LambdaItem(LenOfA)],
     [f \in {"d"} |-> LambdaNoParam(LenOfA)],
     [f \in {"d", "e"} |-> IF f = "d" THEN NotALambda(LenOfA)
                            ELSE LambdaNoParam(LenOfA)],
     [f \in {"c", "e"} |-> IF f = "c" THEN LambdaNoParam(LenOfA)
                            ELSE LambdaNoParam(ItemC)]}

TransformerConfigs ==
    [field_mapping : FieldMappings,
     type_conversions : TypeConversions,
     custom_functions : CustomFunctions]

TransformInit ==
    /\ transformer_config \in TransformerConfigs
    /\ transform_input \in SeqsUpTo(TransformItems, MaxItems)
    /\ mapped_items = <<>>
    /\ typed_items = <<>>
    /\ transform_failed = <<>>
    /\ transformed_items = <<>>
    /\ transform_pc = "idle"

\* transform_data up to its loop: transformed_items = []
TransformData ==
    /\ transform_pc = "idle"
    /\ transform_pc' = "loop"
    /\ UNCHANGED <<transformer_config, transform_input, mapped_items,
                   typed_items, transform_failed, transformed_items>>
    /\ UNCHANGED notTransformVars

\* The item the for loop is at: one entry is logged per item taken.
LoopItem == transform_input[Len(transform_failed) + 1]

\* A handler that leaves a failed item out instead.
OnItemFailureSkip(item) == <<>>

\* except Exception: transformed_items.append(item)
OnItemFailure(item) == <<item>>

\* One pass of the loop body whose _transform_item call returns.
TransformItemReturns ==
    /\ transform_pc = "loop"
    /\ Len(transform_failed) < Len(transform_input)
    /\ LET result == TransformItem(LoopItem, transformer_config) IN
        /\ ~result.raised
        /\ mapped_items' = Append(mapped_items, result.mapped_item)
        /\ typed_items' = Append(typed_items, result.typed_item)
        /\ transform_failed' = Append(transform_failed, FALSE)
        /\ transformed_items' = Append(transformed_items, result.final_item)
    /\ UNCHANGED <<transformer_config, transform_input, transform_pc>>
    /\ UNCHANGED notTransformVars

\* One pass of the loop body whose _transform_item call raises.
TransformItemRaises ==
    /\ transform_pc = "loop"
    /\ Len(transform_failed) < Len(transform_input)
    /\ TransformItem(LoopItem, transformer_config).raised
    /\ mapped_items' = Append(mapped_items, NoneItem)
    /\ typed_items' = Append(typed_items, NoneItem)
    /\ transform_failed' = Append(transform_failed, TRUE)
    /\ transformed_items' = transformed_items \o OnItemFailure(LoopItem)
    /\ UNCHANGED <<transformer_config, transform_input, transform_pc>>
    /\ UNCHANGED notTransformVars

\* return transformed_items
ReturnTransformed ==
    /\ transform_pc = "loop"
    /\ Len(transform_failed) = Len(transform_input)
    /\ transform_pc' = "done"
    /\ UNCHANGED <<transformer_config, transform_input, mapped_items,
                   typed_items, transform_failed, transformed_items>>
    /\ UNCHANGED notTransformVars

TransformNext ==
    \/ TransformData
    \/ TransformItemReturns
    \/ TransformItemRaises
    \/ ReturnTransformed

InitTransform == TransformInit /\ HttpIdle /\ ScrapeIdle /\ CleanIdle
    /\ LockIdle /\ RoundTripIdle /\ CsvIdle /\ RunIdle /\ SchedIdle
    /\ EvalIdle /\ ExtractIdle /\ StringIdle /\ GaugeIdle

SpecTransform == InitTransform /\ [][TransformNext]_vars

\* ------------------------------------------------------------------------
\* Claims about DataTransformer
\* ------------------------------------------------------------------------
\* The loop passes made so far whose _transform_item call returned.
Transformed == {k \in 1..Len(transform_failed) : ~transform_failed[k]}

\* The fields of an item that field_mapping does not name as an old field.
Unmapped(item) == DOMAIN item \ OldFields(transformer_config.field_mapping)

\* C16 as stated: for every pair old -> new whose old field is present the
\* mapped item holds the old field's value under new and no longer has
\* old; every field not named as an old field passes through unchanged.
C16_FieldMapping ==
    \A k \in Transformed :
        LET item == transform_input[k]
            mapped == mapped_items[k]
            field_mapping == transformer_config.field_mapping
        IN /\ \A i \in DOMAIN field_mapping :
                field_mapping[i].old \in DOMAIN item
                    => /\ field_mapping[i].new \in DOMAIN mapped
                       /\ mapped[field_mapping[i].new] = item[field_mapping[i].old]
                       /\ field_mapping[i].old \notin DOMAIN mapped
           /\ \A f \in Unmapped(item) :
                f \in DOMAIN mapped /\ mapped[f] = item[f]

\* C16 as amended: the value of a present old field is held under new
\* unless new is an unmapped field of the item (whose value stays) or a
\* later pair with a present old field has the same new name; old is a
\* field of the mapped item exactly when it is the new name of a pair with
\* a present old field; unmapped fields pass through unchanged and the
\* mapped item has no other fields.
C16_FieldMappingNoClash ==
    \A k \in Transformed :
        LET item == transform_input[k]
            mapped == mapped_items[k]
            field_mapping == transformer_config.field_mapping
            Applies(i) == field_mapping[i].old \in DOMAIN item
            NewFields == {field_mapping[i].new : i \in {j \in DOMAIN field_mapping : Applies(j)}}
        IN /\ \A i \in DOMAIN field_mapping :
                Applies(i)
                    => /\ (/\ field_mapping[i].new \notin Unmapped(item)
                           /\ \A j \in DOMAIN field_mapping :
                                (j > i /\ Applies(j))
                                    => field_mapping[j].new # field_mapping[i].new)
                            => /\ field_mapping[i].new \in DOMAIN mapped
                               /\ mapped[field_mapping[i].new] = item[field_mapping[i].old]
                       /\ field_mapping[i].old \in DOMAIN mapped
                            <=> field_mapping[i].old \in NewFields
           /\ \A f \in Unmapped(item) :
                f \in DOMAIN mapped /\ mapped[f] = item[f]
           /\ DOMAIN mapped = Unmapped(item) \cup NewFields

C16_Witness ==
    \E k \in Transformed :
        /\ transformer_config.field_mapping = <<Rename("a", "b")>>
        /\ DOMAIN transform_input[k] = {"a", "c"}
        /\ DOMAIN mapped_items[k] = {"b", "c"}
        /\ mapped_items[k]["b"] = transform_input[k]["a"]
        /\ mapped_items[k]["c"] = transform_input[k]["c"]

\* C17: transform_data yields exactly one output item per input item, in
\* input order, and does not raise: an item whose transformation raises
\* is passed on as it was and the outputs of the other items are those of
\* their own transformation, never changed by a later pass.
C17_OnePerItem ==
    /\ [](Len(transformed_items) = Len(transform_failed))
    /\ [](transform_pc = "done"
            => Len(transformed_items) = Len(transform_input))
    /\ [](\A k \in 1..Len(transformed_items) :
            transformed_items[k] =
                IF transform_failed[k]
                THEN transform_input[k]
                ELSE ApplyCustomFunctions(typed_items[k],
                        transformer_config.custom_functions))
    /\ [][\A k \in 1..Len(transformed_items) :
            /\ k <= Len(transformed_items')
            /\ transformed_items'[k] = transformed_items[k]]_vars

C17_Witness ==
    /\ transform_pc = "done"
    /\ transform_failed = <<TRUE, FALSE>>
    /\ transformed_items[1] = NoneItem
    /\ transformed_items[2] # transform_input[2]

\* The coercion of field f of the item is attempted and fails.
CoercionFails(item, f) ==
    /\ f \in DOMAIN item \cap DOMAIN transformer_config.type_conversions
    /\ item[f] # NoneValue
    /\ ConvertType(item[f], transformer_config.type_conversions[f]).raised

\* C18: a type coercion that fails for a field leaves the field's original
\* value in the item; it neither drops the item nor a field, nor changes
\* any other field: fields without a conversion stay as they were and the
\* other conversions are still applied.
C18_FailedCoercionKeepsValue ==
    /\ \A k \in 1..Len(transform_failed) :
            IsDict(transform_input[k]) => ~transform_failed[k]
    /\ \A k \in Transformed :
            LET mapped == mapped_items[k]
                typed == typed_items[k]
                type_conversions == transformer_config.type_conversions
            IN /\ DOMAIN typed = DOMAIN mapped
               /\ \A f \in DOMAIN mapped :
                    CASE CoercionFails(mapped, f) -> typed[f] = mapped[f]
                      [] f \notin DOMAIN type_conversions -> typed[f] = mapped[f]
                      [] OTHER ->
                            typed[f] = ConvertType(mapped[f], type_conversions[f]).value

C18_Witness ==
    \E k \in Transformed :
        /\ k <= Len(transformed_items)
        /\ {"b", "c"} \subseteq DOMAIN mapped_items[k]
        /\ CoercionFails(mapped_items[k], "b")
        /\ typed_items[k]["b"] = mapped_items[k]["b"]
        /\ "c" \in DOMAIN transformer_config.type_conversions
        /\ typed_items[k]["c"] # mapped_items[k]["c"]

\* C19: a custom function of the configured form "lambda item: f(item)"
\* is evaluated with the current item as its binding: wherever f is
\* defined on the item, the derived field of the transformed item equals
\* f(item).
C19_DerivedEqualsF ==
    \A k \in Transformed :
        \A name \in DOMAIN transformer_config.custom_functions :
            LET lambda_str == transformer_config.custom_functions[name]
                f == EvalBody(lambda_str.body, typed_items[k])
            IN (lambda_str = LambdaItem(lambda_str.body) /\ ~f.raised)
                    => transformed_items[k][name] = f.value

MaxCallers == 2         \* concurrent calls on one adapter

Callers == 1..MaxCallers

\* The calls of the adapter: save(items) with n items, save_one(item)
\* (which is save([item])) and clear().
StorageOps ==
    {[op |-> "save", n |-> n] : n \in 0..MaxItems}
        \cup {[op |-> "save_one", n |-> 1], [op |-> "clear", n |-> 0]}

\* The file operations a call makes inside `async with self._file_lock`.
\*   csv save    os.path.exists, then one f.write of the whole content
\*   csv clear   os.path.exists, then the truncating open
\*   jsonl save  one f.write per item
\*   jsonl clear the truncating open
CriticalSection(kind, o) ==
    CASE kind = "csv" /\ o.op = "clear"   -> <<"exists", "truncate">>
      [] kind = "csv" /\ o.op # "clear"   -> <<"exists", "write">>
      [] kind = "jsonl" /\ o.op = "clear" -> <<"truncate">>
      [] OTHER -> [i \in 1..o.n |-> "write"]

\* The event loop a caller runs on: tasks gathered on one loop share it,
\* a firing has the loop JobRunner.run made for it.
LoopOf(c) == IF same_loop THEN 1 ELSE c

\* Lock.acquire, fast path condition: not self._locked and no live waiter.
CanTakeLock == ~lock_locked /\ lock_waiters = <<>>

LockInit ==
    /\ same_loop \in BOOLEAN
    /\ adapter \in {"csv", "jsonl"}
    /\ lock_locked = FALSE
    /\ lock_waiters = <<>>
    /\ lock_loop = 0
    /\ lock_woken = {}
    /\ call_op \in [Callers -> StorageOps]
    /\ call_pc = [c \in Callers |-> "idle"]
    /\ call_step = [c \in Callers |-> 0]
    /\ call_result = [c \in Callers |-> None]
    /\ io_log = <<>>

\* save / save_one / clear is called.  save returns True at once for an
\* empty list; every other call goes for the lock.
CallStorage(c) ==
    /\ call_pc[c] = "idle"
    /\ IF call_op[c].op = "save" /\ call_op[c].n = 0
       THEN /\ call_pc' = [call_pc EXCEPT ![c] = "done"]
            /\ call_result' = [call_result EXCEPT ![c] = "True"]
       ELSE /\ call_pc' = [call_pc EXCEPT ![c] = "acquire"]
            /\ UNCHANGED call_result
    /\ UNCHANGED <<same_loop, adapter, lock_locked, lock_waiters, lock_loop,
                   lock_woken, call_op, call_step, io_log>>
    /\ UNCHANGED notLockVars

\* acquire(), fast path, callers on one loop: test and set happen without
\* a suspension point in between.
AcquireFast(c) ==
    /\ same_loop
    /\ call_pc[c] = "acquire"
    /\ CanTakeLock
    /\ lock_locked' = TRUE
    /\ call_pc' = [call_pc EXCEPT ![c] = "in"]
    /\ UNCHANGED <<same_loop, adapter, lock_waiters, lock_loop, lock_woken,
                   call_op, call_step, call_result, io_log>>
    /\ UNCHANGED notLockVars

\* acquire(), fast path, callers in different threads: the test ...
AcquireTest(c) ==
    /\ ~same_loop
    /\ call_pc[c] = "acquire"
    /\ CanTakeLock
    /\ call_pc' = [call_pc EXCEPT ![c] = "tested"]
    /\ UNCHANGED <<same_loop, adapter, lock_locked, lock_waiters, lock_loop,
                   lock_woken, call_op, call_step, call_result, io_log>>
    /\ UNCHANGED notLockVars

\* ... and the set, `self._locked = True`.
AcquireSet(c) ==
    /\ call_pc[c] = "tested"
    /\ lock_locked' = TRUE
    /\ call_pc' = [call_pc EXCEPT ![c] = "in"]
    /\ UNCHANGED <<same_loop, adapter, lock_waiters, lock_loop, lock_woken,
                   call_op, call_step, call_result, io_log>>
    /\ UNCHANGED notLockVars

\* acquire(), slow path: self._get_loop() binds the lock to the first loop
\* that waits on it and raises RuntimeError for any other loop; the
\* `except Exception` of save / clear turns that into False.
AcquireWait(c) ==
    /\ call_pc[c] = "acquire"
    /\ ~CanTakeLock
    /\ IF lock_loop \in {0, LoopOf(c)}
       THEN /\ lock_loop' = LoopOf(c)
            /\ lock_waiters' = Append(lock_waiters, c)
            /\ call_pc' = [call_pc EXCEPT ![c] = "waiting"]
            /\ UNCHANGED call_result
       ELSE /\ call_pc' = [call_pc EXCEPT ![c] = "done"]
            /\ call_result' = [call_result EXCEPT ![c] = "False"]
            /\ UNCHANGED <<lock_loop, lock_waiters>>
    /\ UNCHANGED <<same_loop, adapter, lock_locked, lock_woken, call_op,
                   call_step, io_log>>
    /\ UNCHANGED notLockVars

\* A woken waiter resumes: it leaves _waiters and sets _locked.
AcquireResume(c) ==
    /\ call_pc[c] = "waiting"
    /\ c \in lock_woken
    /\ lock_waiters' = SelectSeq(lock_waiters, LAMBDA w : w # c)
    /\ lock_woken' = lock_woken \ {c}
    /\ lock_locked' = TRUE
    /\ call_pc' = [call_pc EXCEPT ![c] = "in"]
    /\ UNCHANGED <<same_loop, adapter, lock_loop, call_op, call_step,
                   call_result, io_log>>
    /\ UNCHANGED notLockVars

\* One file operation of the critical section.
FileOperation(c) ==
    /\ call_pc[c] = "in"
    /\ call_step[c] < Len(CriticalSection(adapter, call_op[c]))
    /\ call_step' = [call_step EXCEPT ![c] = @ + 1]
    /\ io_log' = Append(io_log,
                        <<c, CriticalSection(adapter, call_op[c])[call_step[c] + 1]>>)
    /\ UNCHANGED <<same_loop, adapter, lock_locked, lock_waiters, lock_loop,
                   lock_woken, call_op, call_pc, call_result>>
    /\ UNCHANGED notLockVars

\* Leaving `async with`: release() clears _locked and gives the first
\* waiter's future its result; release() of a lock that is not locked
\* raises RuntimeError, which the `except Exception` turns into False.
ReleaseLock(c) ==
    /\ call_pc[c] = "in"
    /\ call_step[c] = Len(CriticalSection(adapter, call_op[c]))
    /\ call_pc' = [call_pc EXCEPT ![c] = "done"]
    /\ IF lock_locked
       THEN /\ lock_locked' = FALSE
            /\ lock_woken' = IF lock_waiters = <<>> THEN lock_woken
                             ELSE lock_woken \cup {Head(lock_waiters)}
            /\ call_result' = [call_result EXCEPT ![c] = "True"]
       ELSE /\ call_result' = [call_result EXCEPT ![c] = "False"]
            /\ UNCHANGED <<lock_locked, lock_woken>>
    /\ UNCHANGED <<same_loop, adapter, lock_waiters, lock_loop, call_op,
                   call_step, io_log>>
    /\ UNCHANGED notLockVars

LockNext ==
    \E c \in Callers :
        \/ CallStorage(c)
        \/ AcquireFast(c)
        \/ AcquireTest(c)
        \/ AcquireSet(c)
        \/ AcquireWait(c)
        \/ AcquireResume(c)
        \/ FileOperation(c)
        \/ ReleaseLock(c)

InitLock == LockInit /\ HttpIdle /\ ScrapeIdle /\ CleanIdle /\ TransformIdle
    /\ RoundTripIdle /\ CsvIdle /\ RunIdle /\ SchedIdle /\ EvalIdle
    /\ ExtractIdle /\ StringIdle /\ GaugeIdle

SpecLock == InitLock /\ [][LockNext]_vars

\* The callers that are inside `async with self._file_lock`.
InsideLock == {c \in Callers : call_pc[c] = "in"}

\* C21: concurrent save / save_one / clear calls on one adapter are
\* mutually exclusive, also when they come from firings of different
\* scheduler jobs: at most one call is inside the locked section, and the
\* file operations of one call are never interleaved with another's.
C21_MutuallyExclusive ==
    /\ Cardinality(InsideLock) <= 1
    /\ \A i, j, k \in 1..Len(io_log) :
           i < j /\ j < k /\ io_log[i][1] = io_log[k][1]
               => io_log[j][1] = io_log[i][1]

\* ------------------------------------------------------------------------
\* save then load on an empty store, for the three backends
\* (src/storage/csv_storage.py, jsonl_storage.py, sqlite_storage.py)
\*
\* Text is a sequence of characters.  The csv module is taken to carry a
\* row of cell texts from DictWriter to DictReader unchanged (its quoting
\* exists for that); what the adapters themselves do to a value on the way
\* to a cell or a JSON text and back is modelled character by character.
\* ------------------------------------------------------------------------
ListValue(l) == [kind |-> "list", l |-> l]

\* ", ".join / ",".join of a list of texts
RECURSIVE Join(_, _)
Join(texts, sep) ==
    IF texts = <<>> THEN <<>>
    ELSE IF Len(texts) = 1 THEN texts[1]
    ELSE texts[1] \o sep \o Join(Tail(texts), sep)

\* json.dumps(value, separators=(item_sep, ...)) of None, a bool, an int, a
\* str without quote or backslash, or a list of ints.
JsonDumps(value, item_sep) ==
    CASE value.kind = "none" -> <<"n", "u", "l", "l">>
      [] value.kind = "bool" -> IF value.b THEN <<"t", "r", "u", "e">>
                                ELSE <<"f", "a", "l", "s", "e">>
      [] value.kind = "int"  -> DigitsOf(value.n)
      [] value.kind = "str"  -> <<"\"">> \o value.s \o <<"\"">>
      [] value.kind = "list" ->
            <<"[">> \o Join([i \in 1..Len(value.l) |-> DigitsOf(value.l[i])],
                            item_sep) \o <<"]">>

\* text.split(",")
RECURSIVE SplitComma(_)
SplitComma(text) ==
    IF \A i \in 1..Len(text) : text[i] # ","
    THEN <<text>>
    ELSE LET i == CHOOSE k \in 1..Len(text) :
                      text[k] = "," /\ \A m \in 1..(k - 1) : text[m] # ","
         IN  <<SubSeq(text, 1, i - 1)>>
                 \o SplitComma(SubSeq(text, i + 1, Len(text)))

\* text.lstrip(" ")
RECURSIVE LStripSpace(_)
LStripSpace(text) ==
    IF text # <<>> /\ text[1] = " " THEN LStripSpace(Tail(text)) ELSE text

\* json.loads(text): the decoded value, or Raised for text that is not JSON
\* of the kinds above.
JsonLoads(text) ==
    CASE text = <<"n", "u", "l", "l">> -> Returned(NoneValue)
      [] text = <<"t", "r", "u", "e">> -> Returned(BoolValue(TRUE))
      [] text = <<"f", "a", "l", "s", "e">> -> Returned(BoolValue(FALSE))
      [] IsNumeric(text) -> Returned(IntValue(IntOf(text)))
      [] Len(text) >= 2 /\ text[1] = "\"" /\ text[Len(text)] = "\""
            /\ \A i \in 2..(Len(text) - 1) : text[i] # "\"" ->
            Returned(Str(SubSeq(text, 2, Len(text) - 1)))
      [] Len(text) >= 2 /\ text[1] = "[" /\ text[Len(text)] = "]" ->
            LET inner == SubSeq(text, 2, Len(text) - 1)
                parts == IF inner = <<>> THEN <<>>
                         ELSE [i \in 1..Len(SplitComma(inner)) |->
                                   LStripSpace(SplitComma(inner)[i])]
            IN  IF \A i \in 1..Len(parts) : IsNumeric(parts[i])
                THEN Returned(ListValue([i \in 1..Len(parts) |->
                                             IntOf(parts[i])]))
                ELSE Raised
      [] OTHER -> Raised

\* sorted(list(all_fields)) over the field names in use
FieldOrder == <<"a", "b">>
SortedFields(its) ==
    SelectSeq(FieldOrder,
              LAMBDA f : \E i \in 1..Len(its) : f \in DOMAIN its[i])

\* _prepare_csv_content, one cell: item.get(field, "") then None -> "",
\* list / dict -> json.dumps, anything else -> str(value).
CsvCell(item, field) ==
    IF field \notin DOMAIN item THEN <<>>
    ELSE CASE item[field].kind = "none" -> <<>>
           [] item[field].kind = "list" -> JsonDumps(item[field], <<",", " ">>)
           [] OTHER -> StrOf(item[field])

\* _prepare_csv_content: the header row, if asked for, and one row per item.
PrepareCsvContent(its, fieldnames, write_header) ==
    (IF write_header THEN <<fieldnames>> ELSE <<>>)
        \o [i \in 1..Len(its) |->
                [k \in 1..Len(fieldnames) |-> CsvCell(its[i], fieldnames[k])]]

\* load, one cell: a value that starts with { or [ is handed to
\* json.loads and stays a string if that raises.
CsvValue(cell) ==
    IF cell # <<>> /\ cell[1] \in {"{", "["} /\ ~JsonLoads(cell).raised
    THEN JsonLoads(cell).value
    ELSE Str(cell)

\* csv.DictReader: the first row names the fields of all the others.
CsvLoad(rows) ==
    IF rows = <<>> THEN <<>>
    ELSE [i \in 1..(Len(rows) - 1) |->
              [f \in {rows[1][k] : k \in 1..Len(rows[1])} |->
                   LET k == CHOOSE k \in 1..Len(rows[1]) : rows[1][k] = f
                   IN  CsvValue(rows[i + 1][k])]]

\* json.dumps(item, separators=(',', ':')) / json.loads(line), field by
\* field: the object syntax around the values is not modelled.
JsonLine(item, item_sep) == [f \in DOMAIN item |-> JsonDumps(item[f], item_sep)]
JsonItem(line) == [f \in DOMAIN line |-> JsonLoads(line[f]).value]

\* The texts the items are made of.
RoundTripValues ==
    {NoneValue, Str(<<"x">>), Str(<<"1">>), IntValue(1), BoolValue(TRUE),
     ListValue(<<>>), ListValue(<<1, 2>>)}

RoundTripItems ==
    UNION {[S -> RoundTripValues] : S \in (SUBSET {"a", "b"}) \ {{}}}

RoundTripInit ==
    /\ storage_type \in {"csv", "jsonl", "sqlite"}
    /\ saved_items \in UNION {[1..n -> RoundTripItems] : n \in 1..MaxItems}
    /\ store = <<>>
    /\ loaded_items = <<>>
    /\ roundtrip_pc = "empty"

\* save(items) on the empty store.  The sqlite table stamps each row with
\* CURRENT_TIMESTAMP, which has a resolution of one second: the rows of
\* one save carry the same stamp or, across a second boundary, rising
\* ones.
Save ==
    /\ roundtrip_pc = "empty"
    /\ roundtrip_pc' = "saved"
    /\ CASE storage_type = "csv" ->
              store' = PrepareCsvContent(saved_items,
                                         SortedFields(saved_items), TRUE)
         [] storage_type = "jsonl" ->
              store' = [i \in 1..Len(saved_items) |->
                            JsonLine(saved_items[i], <<",">>)]
         [] storage_type = "sqlite" ->
              \E stamps \in [1..Len(saved_items) -> 0..1] :
                  /\ \A i, j \in 1..Len(saved_items) :
                         i <= j => stamps[i] <= stamps[j]
                  /\ store' = [i \in 1..Len(saved_items) |->
                                   [data |-> JsonLine(saved_items[i],
                                                      <<",", " ">>),
                                    created_at |-> stamps[i]]]
    /\ UNCHANGED <<storage_type, saved_items, loaded_items>>
    /\ UNCHANGED notRoundTripVars

\* load().  sqlite: SELECT data ... ORDER BY created_at DESC; the order of
\* rows with equal stamps is not defined by the query.
Load ==
    /\ roundtrip_pc = "saved"
    /\ roundtrip_pc' = "loaded"
    /\ CASE storage_type = "csv" -> loaded_items' = CsvLoad(store)
         [] storage_type = "jsonl" ->
              loaded_items' = [i \in 1..Len(store) |-> JsonItem(store[i])]
         [] storage_type = "sqlite" ->
              \E order \in [1..Len(store) -> 1..Len(store)] :
                  /\ \A i, j \in 1..Len(store) : i # j => order[i] # order[j]
                  /\ \A i, j \in 1..Len(store) :
                         i < j => store[order[i]].created_at
                                      >= store[order[j]].created_at
                  /\ loaded_items' = [i \in 1..Len(store) |->
                                          JsonItem(store[order[i]].data)]
    /\ UNCHANGED <<storage_type, saved_items, store>>
    /\ UNCHANGED notRoundTripVars

RoundTripNext == Save \/ Load

InitRoundTrip ==
    RoundTripInit /\ HttpIdle /\ ScrapeIdle /\ CleanIdle /\ TransformIdle
    /\ LockIdle /\ CsvIdle /\ RunIdle /\ SchedIdle /\ EvalIdle /\ ExtractIdle
    /\ StringIdle /\ GaugeIdle

SpecRoundTrip == InitRoundTrip /\ [][RoundTripNext]_vars

\* A loaded record carries every field of the saved item with its value.
SameFields(saved, loaded) ==
    \A f \in DOMAIN saved : f \in DOMAIN loaded /\ loaded[f] = saved[f]

\* C22: for every backend, after save(items) on an empty store load()
\* returns one record per saved item, every field of the item equal to
\* the value that was saved.
C22_RoundTrip ==
    roundtrip_pc = "loaded" =>
        /\ Len(loaded_items) = Len(saved_items)
        /\ \E order \in [1..Len(saved_items) -> 1..Len(saved_items)] :
               /\ \A i, j \in 1..Len(saved_items) :
                      i # j => order[i] # order[j]
               /\ \A i \in 1..Len(saved_items) :
                      SameFields(saved_items[i], loaded_items[order[i]])

\* ------------------------------------------------------------------------
\* CSVStorage: the header row over sequences of save, save_one and clear
\* (src/storage/csv_storage.py)
\* ------------------------------------------------------------------------
MaxCalls == 3           \* calls made on one CSV adapter

\* Items whose values are strings that load() hands back unchanged.
CsvItems == [{"a"} -> {Str(<<"x">>), Str(<<"1">>)}]

CsvInit ==
    /\ csv_mode \in {"a", "w"}
    /\ file_exists = FALSE
    /\ csv_file = <<>>
    /\ since_clear = <<>>
    /\ saves_since_clear = 0
    /\ csv_calls = 0

\* should_write_header = self.write_header and
\*                       (not file_exists or self.mode == 'w')
\* with write_header left at its default True.
ShouldWriteHeader(exists, mode) == ~exists \/ mode = "w"

\* The rows save adds, marked: the first is the header if one is written.
MarkedContent(its, write_header) ==
    LET content == PrepareCsvContent(its, SortedFields(its), write_header)
    IN  [i \in 1..Len(content) |->
             [header |-> write_header /\ i = 1, cells |-> content[i]]]

\* save(items): nothing for an empty list; else the content is written to
\* the file opened with 'a' (appending) or 'w' (truncating).
CsvSave(its) ==
    /\ csv_calls < MaxCalls
    /\ csv_calls' = csv_calls + 1
    /\ IF its = <<>>
       THEN UNCHANGED <<file_exists, csv_file, since_clear, saves_since_clear>>
       ELSE /\ file_exists' = TRUE
            /\ csv_file' =
                   (IF csv_mode = "w" THEN <<>> ELSE csv_file)
                       \o MarkedContent(its,
                                        ShouldWriteHeader(file_exists, csv_mode))
            /\ since_clear' = (IF csv_mode = "w" THEN <<>> ELSE since_clear)
                                  \o its
            /\ saves_since_clear' =
                   IF csv_mode = "w" THEN 1 ELSE saves_since_clear + 1
    /\ UNCHANGED csv_mode
    /\ UNCHANGED notCsvVars

\* save_one(item) is save([item]).
CsvSaveOne(item) == CsvSave(<<item>>)

\* clear(): an existing file is opened with 'w', which empties it; the
\* file stays in place.
CsvClear ==
    /\ csv_calls < MaxCalls
    /\ csv_calls' = csv_calls + 1
    /\ csv_file' = <<>>
    /\ since_clear' = <<>>
    /\ saves_since_clear' = 0
    /\ UNCHANGED <<csv_mode, file_exists>>
    /\ UNCHANGED notCsvVars

CsvNext ==
    \/ \E its \in UNION {[1..n -> CsvItems] : n \in 0..MaxItems} : CsvSave(its)
    \/ \E item \in CsvItems : CsvSaveOne(item)
    \/ CsvClear

InitCsv ==
    CsvInit /\ HttpIdle /\ ScrapeIdle /\ CleanIdle /\ TransformIdle
    /\ LockIdle /\ RoundTripIdle /\ RunIdle /\ SchedIdle /\ EvalIdle
    /\ ExtractIdle /\ StringIdle /\ GaugeIdle

SpecCsv == InitCsv /\ [][CsvNext]_vars

\* What load() returns for the file as it is.
LoadedNow == CsvLoad([i \in 1..Len(csv_file) |-> csv_file[i].cells])

\* C29: in append mode, after any sequence of save, save_one and clear,
\* a file that holds data rows starts with exactly one header row, and
\* load() after a clear() followed by one save(items) returns exactly items.
C29_HeaderFirst ==
    csv_mode = "a" =>
        /\ (\E i \in 1..Len(csv_file) : ~csv_file[i].header) =>
               /\ csv_file[1].header
               /\ Cardinality({i \in 1..Len(csv_file) : csv_file[i].header}) = 1
        /\ saves_since_clear = 1 => LoadedNow = since_clear

\* ------------------------------------------------------------------------
\* DataProcessor.run_target_once (src/main.py)
\*
\* Every call the function makes on a collaborator either returns or
\* raises.  The storage adapters and the notifiers catch their own
\* exceptions and report failure by their return value; the scraper, the
\* cleaner, the transformer, the configuration and the metrics collector
\* have no such guard, so their calls may raise.
\* ------------------------------------------------------------------------
RunInit ==
    /\ run_pc = "set_active_runs"
    /\ dry_run \in BOOLEAN
    /\ has_notifier \in BOOLEAN
    /\ scraped_count = 0
    /\ processed_count = 0
    /\ transformed_count = 0
    /\ save_success = None
    /\ saved_count = 0
    /\ run_pending = None
    /\ run_result = None
    /\ run_escaped = FALSE

\* A call inside the try body at position `at`: it returns and the
\* function goes on to `next`, or it raises and `except Exception` takes
\* over.
TryCall(at, next) ==
    /\ run_pc = at
    /\ \/ run_pc' = next
       \/ run_pc' = "except"
    /\ UNCHANGED <<dry_run, has_notifier, scraped_count, processed_count,
                   transformed_count, save_success, saved_count, run_pending,
                   run_result, run_escaped>>
    /\ UNCHANGED notRunVars

\* A call inside the except handler: it returns, or it raises and the
\* exception leaves the try statement through finally.
HandlerCall(at, next) ==
    /\ run_pc = at
    /\ \/ run_pc' = next /\ UNCHANGED run_pending
       \/ run_pc' = "finally" /\ run_pending' = "exception"
    /\ UNCHANGED <<dry_run, has_notifier, scraped_count, processed_count,
                   transformed_count, save_success, saved_count, run_result,
                   run_escaped>>
    /\ UNCHANGED notRunVars

\* self.metrics.set_active_runs(1, target_name), before the try statement.
SetActiveRuns ==
    /\ run_pc = "set_active_runs"
    /\ \/ run_pc' = "get_target" /\ UNCHANGED run_escaped
       \/ run_pc' = "done" /\ run_escaped' = TRUE
    /\ UNCHANGED <<dry_run, has_notifier, scraped_count, processed_count,
                   transformed_count, save_success, saved_count, run_pending,
                   run_result>>
    /\ UNCHANGED notRunVars

\* target_config = self.config.get_target(target_name)
GetTarget == TryCall("get_target", "scrape")

\* scraped_items = await self.scraper.scrape_target(target_config, run_id)
ScrapeTargetCall ==
    /\ run_pc = "scrape"
    /\ \/ /\ run_pc' = "record_scraped"
          /\ scraped_count' \in 0..MaxItems
       \/ /\ run_pc' = "except"
          /\ UNCHANGED scraped_count
    /\ UNCHANGED <<dry_run, has_notifier, processed_count, transformed_count,
                   save_success, saved_count, run_pending, run_result,
                   run_escaped>>
    /\ UNCHANGED notRunVars

\* self.metrics.record_scraped_items(...)
RecordScrapedItems == TryCall("record_scraped", "clean")

\* cleaned_items = self.cleaner.clean_data(scraped_items)
CleanDataCall ==
    /\ run_pc = "clean"
    /\ \/ /\ run_pc' = "record_processed"
          /\ processed_count' \in 0..scraped_count
       \/ /\ run_pc' = "except"
          /\ UNCHANGED processed_count
    /\ UNCHANGED <<dry_run, has_notifier, scraped_count, transformed_count,
                   save_success, saved_count, run_pending, run_result,
                   run_escaped>>
    /\ UNCHANGED notRunVars

\* self.metrics.record_processed_items(...)
RecordProcessedItems == TryCall("record_processed", "transform")

\* transformed_items = self.transformer.transform_data(cleaned_items): one
\* output item per input item.
TransformDataCall ==
    /\ run_pc = "transform"
    /\ \/ /\ run_pc' = "save"
          /\ transformed_count' = processed_count
       \/ /\ run_pc' = "except"
          /\ UNCHANGED transformed_count
    /\ UNCHANGED <<dry_run, has_notifier, scraped_count, processed_count,
                   save_success, saved_count, run_pending, run_result,
                   run_escaped>>
    /\ UNCHANGED notRunVars

\* What the function does with save's return value.
OnSaveResult(ok) == IF ok THEN "record_saved" ELSE "notify_success"

\* Step 4: `if not dry_run and transformed_items:` save_success = await
\* self.storage.save(transformed_items).  save returns True or False; on
\* False the function logs "Failed to save data" and goes on.
SaveData ==
    /\ run_pc = "save"
    /\ IF ~dry_run /\ transformed_count > 0
       THEN \E ok \in BOOLEAN :
                /\ save_success' = IF ok THEN "True" ELSE "False"
                /\ saved_count' = IF ok THEN transformed_count ELSE 0
                /\ run_pc' = OnSaveResult(ok)
       ELSE /\ run_pc' = "notify_success"
            /\ UNCHANGED <<save_success, saved_count>>
    /\ UNCHANGED <<dry_run, has_notifier, scraped_count, processed_count,
                   transformed_count, run_pending, run_result, run_escaped>>
    /\ UNCHANGED notRunVars

\* self.metrics.record_saved_items(...)
RecordSavedItems == TryCall("record_saved", "notify_success")

\* if self.notifier: await self.notifier.send_success_notifications(...);
\* a notifier that cannot send returns False for its channel.
SendSuccessNotifications ==
    /\ run_pc = "notify_success"
    /\ run_pc' = "update_last_run"
    /\ UNCHANGED <<dry_run, has_notifier, scraped_count, processed_count,
                   transformed_count, save_success, saved_count, run_pending,
                   run_result, run_escaped>>
    /\ UNCHANGED notRunVars

\* self.metrics.update_last_run(target_name), success path
UpdateLastRun == TryCall("update_last_run", "return_success")

\* return {'success': True, ...}
ReturnSuccess ==
    /\ run_pc = "return_success"
    /\ run_pc' = "finally"
    /\ run_pending' = "success"
    /\ UNCHANGED <<dry_run, has_notifier, scraped_count, processed_count,
                   transformed_count, save_success, saved_count, run_result,
                   run_escaped>>
    /\ UNCHANGED notRunVars

\* except Exception as e: self.metrics.record_failed_items(...)
RecordFailedItems ==
    \/ /\ run_pc = "except"
       /\ run_pc' = "record_failed"
       /\ UNCHANGED <<dry_run, has_notifier, scraped_count, processed_count,
                      transformed_count, save_success, saved_count,
                      run_pending, run_result, run_escaped>>
       /\ UNCHANGED notRunVars
    \/ HandlerCall("record_failed", "handler_update_last_run")

\* self.metrics.update_last_run(target_name), in the handler
HandlerUpdateLastRun == HandlerCall("handler_update_last_run", "notify_error")

\* if self.notifier: await self.notifier.send_error_notifications(...)
SendErrorNotifications ==
    /\ run_pc = "notify_error"
    /\ run_pc' = "return_failure"
    /\ UNCHANGED <<dry_run, has_notifier, scraped_count, processed_count,
                   transformed_count, save_success, saved_count, run_pending,
                   run_result, run_escaped>>
    /\ UNCHANGED notRunVars

\* return {'success': False, 'run_id': ..., 'error': ..., 'context': ...}
ReturnFailure ==
    /\ run_pc = "return_failure"
    /\ run_pc' = "finally"
    /\ run_pending' = "failure"
    /\ UNCHANGED <<dry_run, has_notifier, scraped_count, processed_count,
                   transformed_count, save_success, saved_count, run_result,
                   run_escaped>>
    /\ UNCHANGED notRunVars

\* finally: self.metrics.set_active_runs(0, target_name).  If it returns,
\* the pending return value or exception goes through; if it raises, its
\* exception replaces either.
Finally ==
    /\ run_pc = "finally"
    /\ run_pc' = "done"
    /\ \/ /\ run_pending \in {"success", "failure"}
          /\ run_result' = run_pending
          /\ UNCHANGED run_escaped
       \/ /\ run_pending = "exception"
          /\ run_escaped' = TRUE
          /\ UNCHANGED run_result
       \/ /\ run_escaped' = TRUE
          /\ UNCHANGED run_result
    /\ UNCHANGED <<dry_run, has_notifier, scraped_count, processed_count,
                   transformed_count, save_success, saved_count, run_pending>>
    /\ UNCHANGED notRunVars

RunNext ==
    \/ SetActiveRuns
    \/ GetTarget
    \/ ScrapeTargetCall
    \/ RecordScrapedItems
    \/ CleanDataCall
    \/ RecordProcessedItems
    \/ TransformDataCall
    \/ SaveData
    \/ RecordSavedItems
    \/ SendSuccessNotifications
    \/ UpdateLastRun
    \/ ReturnSuccess
    \/ RecordFailedItems
    \/ HandlerUpdateLastRun
    \/ SendErrorNotifications
    \/ ReturnFailure
    \/ Finally

InitRun ==
    RunInit /\ HttpIdle /\ ScrapeIdle /\ CleanIdle /\ TransformIdle
    /\ LockIdle /\ RoundTripIdle /\ CsvIdle /\ SchedIdle /\ EvalIdle
    /\ ExtractIdle /\ StringIdle /\ GaugeIdle

SpecRun == InitRun /\ [][RunNext]_vars

\* C23: run_target_once never lets an error escape: whatever fails in
\* scraping, cleaning, transforming, saving, metrics or notification, the
\* call ends with exactly one result, the success shape or the failure
\* shape, and no exception.
C23_NoErrorEscapes ==
    run_pc = "done" =>
        /\ ~run_escaped
        /\ run_result \in {"success", "failure"}

\* C30: when the storage write of a Run fails (save returned False) the
\* Run's result does not report success.
C30_FailedSaveNotSuccess ==
    (run_pc = "done" /\ save_success = "False") => run_result # "success"

\* ------------------------------------------------------------------------
\* SchedulerManager and JobRunner (src/scheduler.py)
\*
\* The manager delegates to an APScheduler BackgroundScheduler built with
\* its defaults.  What the model takes from that library:
\*   - one scheduler thread wakes at every trigger time and submits the due
\*     jobs, in job-store order, to a pool of max_workers worker threads;
\*   - a job whose earlier firing has not finished is not submitted again
\*     (max_instances = 1) and its trigger moves on;
\*   - the worker catches whatever the job function raises, logs it, and
\*     goes back to the pool; the scheduler and the job store are untouched;
\*   - pause_job sets the job's next_run_time to None, resume_job sets it to
\*     the trigger's next time at or after now.
\* Time is counted in ticks; every job has an interval trigger.  An
\* interval trigger fires on a fixed grid, so each job carries the ticks
\* left until its next grid point; 0 means the job is due now.
\* ------------------------------------------------------------------------
MaxJobs == 2            \* jobs of the scheduler
MaxRuns == 2            \* update_job_stats calls explored

max_workers == 10       \* worker threads of the default executor

Intervals == {1, 2}

JobIds == DOMAIN run_state

\* self.job_stats after __init__
NoRuns == [total_runs |-> 0, successful_runs |-> 0, failed_runs |-> 0]

\* SchedulerManager.__init__
SchedInit ==
    /\ scheduler_running = FALSE
    /\ job_store = {}
    /\ interval = [j \in 1..MaxJobs |-> 1]
    /\ until_fire = [j \in 1..MaxJobs |-> 1]
    /\ paused = [j \in 1..MaxJobs |-> FALSE]
    /\ pause_called = [j \in 1..MaxJobs |-> FALSE]
    /\ run_state = [j \in 1..MaxJobs |-> "idle"]
    /\ failed_last = [j \in 1..MaxJobs |-> FALSE]
    /\ job_stats = NoRuns
    /\ trigger = [j \in DOMAIN run_state |-> "interval"]
    /\ active_jobs = job_store
    /\ last_run = [j \in DOMAIN run_state |-> None]

\* start(): self.scheduler.start()
StartScheduler ==
    /\ ~scheduler_running
    /\ scheduler_running' = TRUE
    /\ UNCHANGED <<job_store, interval, until_fire, paused,
                   pause_called, run_state,
                   failed_last, job_stats>>
    /\ UNCHANGED <<trigger, active_jobs, last_run>>
    /\ UNCHANGED notSchedVars

\* stop(): self.scheduler.shutdown(wait=True)
StopScheduler ==
    /\ scheduler_running
    /\ scheduler_running' = FALSE
    /\ UNCHANGED <<job_store, interval, until_fire, paused,
                   pause_called, run_state,
                   failed_last, job_stats>>
    /\ UNCHANGED <<trigger, active_jobs, last_run>>
    /\ UNCHANGED notSchedVars

\* _create_trigger: the trigger kinds that yield a trigger.
Triggers == {"interval", "date"}

\* add_job_from_config: the job goes to the scheduler and is tracked in
\* self.active_jobs with last_run None.  The first trigger time of an
\* interval trigger is one interval from now; a date trigger has its one
\* trigger time, here iv ticks from now.
AddJobFromConfig(j, tr, iv) ==
    /\ j \notin job_store
    /\ job_store' = job_store \cup {j}
    /\ trigger' = [trigger EXCEPT ![j] = tr]
    /\ interval' = [interval EXCEPT ![j] = iv]
    /\ until_fire' = [until_fire EXCEPT ![j] = iv]
    /\ paused' = [paused EXCEPT ![j] = FALSE]
    /\ pause_called' = [pause_called EXCEPT ![j] = FALSE]
    /\ active_jobs' = active_jobs \cup {j}
    /\ last_run' = [last_run EXCEPT ![j] = None]
    /\ UNCHANGED <<scheduler_running, run_state, failed_last, job_stats>>
    /\ UNCHANGED notSchedVars

\* remove_job(job_id): the scheduler drops the job, then the manager
\* drops its entry.  A firing that is under way goes on.
RemoveJob(j) ==
    /\ j \in job_store
    /\ job_store' = job_store \ {j}
    /\ active_jobs' = active_jobs \ {j}
    /\ UNCHANGED <<scheduler_running, interval, until_fire, paused,
                   pause_called,
                   run_state, failed_last, job_stats, trigger, last_run>>
    /\ UNCHANGED notSchedVars

\* remove_job(job_id) for an id the scheduler does not hold:
\* self.scheduler.remove_job raises JobLookupError, the except clause
\* logs and returns False, and the del is not reached.
RemoveJobFails(j) ==
    /\ j \notin job_store
    /\ UNCHANGED schedVars
    /\ UNCHANGED notSchedVars

\* What pause_job / resume_job do to the job's next_run_time being None.
PauseIgnored(p) == p
PauseEffect(p) == TRUE
ResumeIgnored(p) == p
ResumeEffect(p) == FALSE

\* pause_job(job_id) returning True
PauseJob(j) ==
    /\ j \in job_store
    /\ ~pause_called[j]
    /\ paused' = [paused EXCEPT ![j] = PauseEffect(@)]
    /\ pause_called' = [pause_called EXCEPT ![j] = TRUE]
    /\ UNCHANGED <<scheduler_running, job_store, interval, until_fire,
                   run_state, failed_last, job_stats>>
    /\ UNCHANGED <<trigger, active_jobs, last_run>>
    /\ UNCHANGED notSchedVars

\* resume_job(job_id) returning True
ResumeJob(j) ==
    /\ j \in job_store
    /\ pause_called[j]
    /\ paused' = [paused EXCEPT ![j] = ResumeEffect(@)]
    /\ pause_called' = [pause_called EXCEPT ![j] = FALSE]
    /\ UNCHANGED <<scheduler_running, job_store, interval, until_fire,
                   run_state, failed_last, job_stats>>
    /\ UNCHANGED <<trigger, active_jobs, last_run>>
    /\ UNCHANGED notSchedVars

\* The jobs the scheduler thread has to submit now.
Due(j) == j \in job_store /\ ~paused[j] /\ until_fire[j] <= 0
DueJobs == {j \in JobIds : Due(j)}

\* One tick of time.  The scheduler thread has handled the jobs that were
\* due; a trigger time of a paused job, or of any job while the scheduler
\* is not running, passes unused.  The one time of a date trigger then
\* lies in the past (-1).
ClockTick ==
    /\ scheduler_running => DueJobs = {}
    /\ until_fire' = [j \in JobIds |->
                          IF j \notin job_store THEN until_fire[j]
                          ELSE IF trigger[j] = "date" /\ until_fire[j] <= 0
                          THEN -1
                          ELSE (IF until_fire[j] = 0 THEN interval[j]
                                ELSE until_fire[j]) - 1]
    /\ UNCHANGED <<scheduler_running, job_store, interval, paused, pause_called,
                   run_state, failed_last, job_stats>>
    /\ UNCHANGED <<trigger, active_jobs, last_run>>
    /\ UNCHANGED notSchedVars

\* The scheduler thread wakes and, holding the job-store lock, submits
\* every due job to the executor, unless an earlier firing of the job is
\* still under way or the trigger time was missed, and moves the job's
\* trigger on.  A date trigger has no further time: the scheduler removes
\* the job from its store.  The manager is not involved.
ProcessJobs ==
    /\ scheduler_running
    /\ DueJobs # {}
    /\ until_fire' = [j \in JobIds |->
                          IF Due(j) /\ trigger[j] = "interval"
                          THEN interval[j] ELSE until_fire[j]]
    /\ run_state' = [j \in JobIds |->
                         IF Due(j) /\ until_fire[j] = 0
                                  /\ run_state[j] = "idle"
                         THEN "queued"
                         ELSE run_state[j]]
    /\ job_store' = job_store \ {j \in DueJobs : trigger[j] = "date"}
    /\ UNCHANGED <<scheduler_running, interval, paused,
                   pause_called, failed_last, job_stats>>
    /\ UNCHANGED <<trigger, active_jobs, last_run>>
    /\ UNCHANGED notSchedVars

\* The firings that hold a worker thread.
Running == {j \in JobIds : run_state[j] = "running"}
WorkerFree == Cardinality(Running) < max_workers

\* A worker thread takes the submitted firing and calls JobRunner.run,
\* which makes a new event loop and runs the job function on it.
JobRunnerRun(j) ==
    /\ run_state[j] = "queued"
    /\ WorkerFree
    /\ run_state' = [run_state EXCEPT ![j] = "running"]
    /\ UNCHANGED <<scheduler_running, job_store, interval, until_fire,
                   paused, pause_called, failed_last, job_stats>>
    /\ UNCHANGED <<trigger, active_jobs, last_run>>
    /\ UNCHANGED notSchedVars

\* The job function returns: JobRunner.run closes the loop and returns
\* the result.
JobReturns(j) ==
    /\ run_state[j] = "running"
    /\ run_state' = [run_state EXCEPT ![j] = "idle"]
    /\ failed_last' = [failed_last EXCEPT ![j] = FALSE]
    /\ UNCHANGED <<scheduler_running, job_store, interval, until_fire,
                   paused, pause_called, job_stats>>
    /\ UNCHANGED <<trigger, active_jobs, last_run>>
    /\ UNCHANGED notSchedVars

\* What an exception that leaves JobRunner.run does to the scheduler: the
\* executor's worker catches it.
JobErrorStopsScheduler(running) == FALSE
JobErrorCaught(running) == running

\* The job function raises: JobRunner.run closes the loop, logs and
\* re-raises.
JobRaises(j) ==
    /\ run_state[j] = "running"
    /\ run_state' = [run_state EXCEPT ![j] = "idle"]
    /\ failed_last' = [failed_last EXCEPT ![j] = TRUE]
    /\ scheduler_running' = JobErrorCaught(scheduler_running)
    /\ UNCHANGED <<job_store, interval, until_fire, paused,
                   pause_called, job_stats>>
    /\ UNCHANGED <<trigger, active_jobs, last_run>>
    /\ UNCHANGED notSchedVars

\* update_job_stats(success).  Nothing in the repository calls it: not
\* JobRunner.run, not the manager, not the CLI.
UpdateJobStats(success) ==
    /\ job_stats.total_runs < MaxRuns
    /\ job_stats' =
           [total_runs |-> job_stats.total_runs + 1,
            successful_runs |-> job_stats.successful_runs
                                    + (IF success THEN 1 ELSE 0),
            failed_runs |-> job_stats.failed_runs
                                + (IF success THEN 0 ELSE 1)]
    /\ UNCHANGED <<scheduler_running, job_store, interval, until_fire,
                   paused, pause_called, run_state, failed_last>>
    /\ UNCHANGED <<trigger, active_jobs, last_run>>
    /\ UNCHANGED notSchedVars

SchedNext ==
    \/ StartScheduler
    \/ StopScheduler
    \/ \E j \in JobIds, tr \in Triggers, iv \in Intervals :
            AddJobFromConfig(j, tr, iv)
    \/ \E j \in JobIds : RemoveJob(j)
    \/ \E j \in JobIds : RemoveJobFails(j)
    \/ \E j \in JobIds : PauseJob(j)
    \/ \E j \in JobIds : ResumeJob(j)
    \/ ClockTick
    \/ ProcessJobs
    \/ \E j \in JobIds : JobRunnerRun(j)
    \/ \E j \in JobIds : JobReturns(j)
    \/ \E j \in JobIds : JobRaises(j)
    \/ \E success \in BOOLEAN : UpdateJobStats(success)

InitSched ==
    SchedInit /\ HttpIdle /\ ScrapeIdle /\ CleanIdle /\ TransformIdle
    /\ LockIdle /\ RoundTripIdle /\ CsvIdle /\ RunIdle /\ EvalIdle
    /\ ExtractIdle /\ StringIdle /\ GaugeIdle

SpecSched == InitSched /\ [][SchedNext]_vars

\* C24: every firing of a scheduled job is tallied: a firing that raises
\* adds one to total_runs and to failed_runs and leaves successful_runs, a
\* firing that returns adds one to total_runs and to successful_runs, and
\* total_runs = successful_runs + failed_runs in every state.
C24_FiringsTallied ==
    /\ [](job_stats.total_runs
              = job_stats.successful_runs + job_stats.failed_runs)
    /\ [][\A j \in JobIds :
              /\ JobRaises(j) =>
                     /\ job_stats'.total_runs = job_stats.total_runs + 1
                     /\ job_stats'.failed_runs = job_stats.failed_runs + 1
                     /\ job_stats'.successful_runs = job_stats.successful_runs
              /\ JobReturns(j) =>
                     /\ job_stats'.total_runs = job_stats.total_runs + 1
                     /\ job_stats'.successful_runs
                            = job_stats.successful_runs + 1]_vars

\* ------------------------------------------------------------------------
\* The running scheduler: start() has been called and every job has been
\* added, the odd ones with an interval of one tick and the even ones
\* with an interval of two.  When pause_job and resume_job are called is up to the caller.
\* A worker thread that has a firing takes it up, and a job function that
\* was called returns or raises (weak fairness).  The caller holds the
\* job-store lock only while pause_job or resume_job runs, so it cannot
\* keep the scheduler thread from its due jobs for ever, and it cannot
\* stop the clock (strong fairness: the caller's calls switch these two
\* on and off).
\* ------------------------------------------------------------------------
LiveInit ==
    /\ scheduler_running = TRUE
    /\ job_store = 1..MaxJobs
    /\ interval = [j \in 1..MaxJobs |-> IF j % 2 = 1 THEN 1 ELSE 2]
    /\ until_fire = interval
    /\ paused = [j \in 1..MaxJobs |-> FALSE]
    /\ pause_called = [j \in 1..MaxJobs |-> FALSE]
    /\ run_state = [j \in 1..MaxJobs |-> "idle"]
    /\ failed_last = [j \in 1..MaxJobs |-> FALSE]
    /\ job_stats = NoRuns
    /\ trigger = [j \in DOMAIN run_state |-> "interval"]
    /\ active_jobs = job_store
    /\ last_run = [j \in DOMAIN run_state |-> None]

LiveNext ==
    \/ \E j \in JobIds : PauseJob(j)
    \/ \E j \in JobIds : ResumeJob(j)
    \/ ClockTick
    \/ ProcessJobs
    \/ \E j \in JobIds : JobRunnerRun(j)
    \/ \E j \in JobIds : JobReturns(j)
    \/ \E j \in JobIds : JobRaises(j)

InitSchedLive ==
    LiveInit /\ HttpIdle /\ ScrapeIdle /\ CleanIdle /\ TransformIdle
    /\ LockIdle /\ RoundTripIdle /\ CsvIdle /\ RunIdle /\ EvalIdle
    /\ ExtractIdle /\ StringIdle /\ GaugeIdle

SpecSchedLive ==
    /\ InitSchedLive
    /\ [][LiveNext]_vars
    /\ SF_vars(ClockTick)
    /\ SF_vars(ProcessJobs)
    /\ \A j \in 1..MaxJobs :
           /\ WF_vars(JobRunnerRun(j))
           /\ WF_vars(JobReturns(j) \/ JobRaises(j))

PoolJobs == 1..(max_workers + 1)

PoolInit ==
    /\ scheduler_running = TRUE
    /\ job_store = PoolJobs
    /\ interval = [j \in PoolJobs |-> 1]
    /\ until_fire = [j \in PoolJobs |-> 0]
    /\ paused = [j \in PoolJobs |-> FALSE]
    /\ pause_called = [j \in PoolJobs |-> FALSE]
    /\ run_state = [j \in PoolJobs |-> "idle"]
    /\ failed_last = [j \in PoolJobs |-> FALSE]
    /\ job_stats = NoRuns
    /\ trigger = [j \in DOMAIN run_state |-> "interval"]
    /\ active_jobs = job_store
    /\ last_run = [j \in DOMAIN run_state |-> None]

PoolNext ==
    \/ ProcessJobs
    \/ \E j \in JobIds : JobRunnerRun(j)
    \/ \E j \in JobIds : JobReturns(j)

InitPool ==
    PoolInit /\ HttpIdle /\ ScrapeIdle /\ CleanIdle /\ TransformIdle
    /\ LockIdle /\ RoundTripIdle /\ CsvIdle /\ RunIdle /\ EvalIdle
    /\ ExtractIdle /\ StringIdle /\ GaugeIdle

SpecPool == InitPool /\ [][PoolNext]_vars

\* C27: each firing runs in its own execution context, so a job function
\* that blocks does not delay the firing of another job that is due at
\* the same time: a submitted firing never has to wait for another firing
\* to finish.
C27_NoFiringWaits ==
    \A j \in JobIds : run_state[j] = "queued" => WorkerFree


----------------------------------------------------------------------------
\* SafeEvaluator: what an expression can reach
\*
\* A custom function is a string; when it is a lambda, its body is a name
\* followed by attribute accesses, subscripts and calls.  The objects are
\* the ones the Python process holds: the item, the allow-listed builtins
\* and classes, the re module, and whatever those objects refer to.

MaxSteps == 4           \* attribute accesses, subscripts, calls in a body

\* ALLOWED_BUILTINS: the names eval sees as builtins (two of them).
ALLOWED_BUILTINS == {"len", "type"}

\* ALLOWED_DATETIME: the datetime class.
ALLOWED_DATETIME == {"datetime"}

\* ALLOWED_STRING: the re module under the name re.
ALLOWED_STRING == {"re"}

\* safe_globals of evaluate_lambda: the three allow-lists and the item.
SafeGlobals ==
    ALLOWED_BUILTINS \cup ALLOWED_DATETIME \cup ALLOWED_STRING \cup {"item"}

\* The names a body may start with.
BodyNames == SafeGlobals \cup {"__import__", "os"}

\* What a body may apply to the object it holds.
BodySteps ==
    {".get", ".enum", ".sys", ".modules", "['os']", ".system",
     ".__builtins__", "['__import__']", "('os')"}

\* Attribute access, subscription and call as Python performs them, None
\* where Python raises.  The re module imports enum, enum and os import
\* sys, sys.modules holds every loaded module, and every module written
\* in Python carries the interpreter's builtins as __builtins__.  eval
\* restricts the names a body can load, never the attributes it can read.
Step(obj, step) ==
    CASE obj = "item" /\ step = ".get" -> "item.get"
      [] obj \in {"item.get", "len", "type"} /\ step = "('os')" -> "value"
      [] obj = "re" /\ step = ".enum" -> "enum"
      [] obj \in {"enum", "os"} /\ step = ".sys" -> "sys"
      [] obj = "sys" /\ step = ".modules" -> "sys.modules"
      [] obj = "sys.modules" /\ step = "['os']" -> "os"
      [] obj = "os" /\ step = ".system" -> "os.system"
      [] obj = "os.system" /\ step = "('os')" -> "value"
      [] obj \in {"re", "enum", "os"} /\ step = ".__builtins__" -> "builtins"
      [] obj = "builtins" /\ step = "['__import__']" -> "__import__"
      [] obj = "__import__" /\ step = "('os')" -> "os"
      [] OTHER -> None

\* What holding an object lets an expression do.
Capability(obj) ==
    CASE obj = "os.system" -> "process"
      [] obj = "__import__" -> "module-import"
      [] OTHER -> None

\* The custom function strings evaluate_lambda is called with.
LambdaStrings ==
    [starts_with_lambda : BOOLEAN,
     params : {0, 1},
     body : {<<n>> \o steps :
                n \in BodyNames,
                steps \in UNION {[1..k -> BodySteps] : k \in 0..MaxSteps}}]

\* except Exception as e: raise TransformationError(...)
RaiseTransformationError ==
    /\ eval_pc' = "done"
    /\ eval_result' = "TransformationError"
    /\ UNCHANGED <<eval_lambda_str, eval_at, eval_obj, eval_reached>>

\* _apply_custom_functions calls evaluate_lambda(lambda_str, item).
EvaluateLambdaCall ==
    /\ eval_pc = "idle"
    /\ eval_lambda_str' \in LambdaStrings
    /\ eval_pc' = "check"
    /\ eval_at' = 0
    /\ eval_obj' = None
    /\ eval_reached' = {}
    /\ eval_result' = None
    /\ UNCHANGED notEvalVars

\* if not lambda_str.strip().startswith('lambda'): raise ValueError
CheckLambda ==
    /\ eval_pc = "check"
    /\ IF eval_lambda_str.starts_with_lambda
       THEN /\ eval_pc' = "eval"
            /\ UNCHANGED <<eval_lambda_str, eval_at, eval_obj, eval_reached,
                           eval_result>>
       ELSE RaiseTransformationError
    /\ UNCHANGED notEvalVars

\* func = eval(lambda_str, safe_globals): the function object is built,
\* its body does not run yet.
EvalLambda ==
    /\ eval_pc = "eval"
    /\ eval_pc' = "call"
    /\ UNCHANGED <<eval_lambda_str, eval_at, eval_obj, eval_reached,
                   eval_result>>
    /\ UNCHANGED notEvalVars

\* return func(): without an argument, a TypeError for a lambda that
\* declares a parameter.
CallFunc ==
    /\ eval_pc = "call"
    /\ IF eval_lambda_str.params = 0
       THEN /\ eval_pc' = "body"
            /\ UNCHANGED <<eval_lambda_str, eval_at, eval_obj, eval_reached,
                           eval_result>>
       ELSE RaiseTransformationError
    /\ UNCHANGED notEvalVars

\* The body loads its name from safe_globals, then from the builtins
\* safe_globals carries; any other name is a NameError.
LoadName ==
    /\ eval_pc = "body"
    /\ eval_at = 0
    /\ LET name == eval_lambda_str.body[1] IN
       IF name \in SafeGlobals
       THEN /\ eval_obj' = name
            /\ eval_reached' = eval_reached \cup {name}
            /\ eval_at' = 1
            /\ UNCHANGED <<eval_lambda_str, eval_pc, eval_result>>
       ELSE RaiseTransformationError
    /\ UNCHANGED notEvalVars

\* The body applies its next attribute access, subscript or call.
ApplyStep ==
    /\ eval_pc = "body"
    /\ eval_at >= 1
    /\ eval_at < Len(eval_lambda_str.body)
    /\ LET next == Step(eval_obj, eval_lambda_str.body[eval_at + 1]) IN
       IF next # None
       THEN /\ eval_obj' = next
            /\ eval_reached' = eval_reached \cup {next}
            /\ eval_at' = eval_at + 1
            /\ UNCHANGED <<eval_lambda_str, eval_pc, eval_result>>
       ELSE RaiseTransformationError
    /\ UNCHANGED notEvalVars

\* The body's value is what evaluate_lambda returns.
ReturnValue ==
    /\ eval_pc = "body"
    /\ eval_at = Len(eval_lambda_str.body)
    /\ eval_pc' = "done"
    /\ eval_result' = eval_obj
    /\ UNCHANGED <<eval_lambda_str, eval_at, eval_obj, eval_reached>>
    /\ UNCHANGED notEvalVars

\* The caller stores the value or None and goes on to the next function;
\* nothing of the finished call remains.
NextFunction ==
    /\ eval_pc = "done"
    /\ eval_lambda_str' = [starts_with_lambda |-> FALSE, params |-> 0,
                           body |-> <<>>]
    /\ eval_pc' = "idle"
    /\ eval_at' = 0
    /\ eval_obj' = None
    /\ eval_reached' = {}
    /\ eval_result' = None
    /\ UNCHANGED notEvalVars

EvalNext ==
    \/ EvaluateLambdaCall
    \/ CheckLambda
    \/ EvalLambda
    \/ CallFunc
    \/ LoadName
    \/ ApplyStep
    \/ ReturnValue
    \/ NextFunction

InitEval == EvalIdle /\ HttpIdle /\ ScrapeIdle /\ CleanIdle /\ TransformIdle
    /\ LockIdle /\ RoundTripIdle /\ CsvIdle /\ RunIdle /\ SchedIdle
    /\ ExtractIdle /\ StringIdle /\ GaugeIdle

SpecEval == InitEval /\ [][EvalNext]_vars

\* Whether the body mentions __import__.
UsesImport ==
    \E i \in 1..Len(eval_lambda_str.body) :
        eval_lambda_str.body[i] \in {"__import__", "['__import__']"}

\* C28: an evaluation holds no object that gives process, filesystem,
\* network or module-import capability, whatever the expression, and an
\* expression that uses __import__ ends in TransformationError.
C28_NoCapability ==
    /\ \A obj \in eval_reached : Capability(obj) = None
    /\ eval_pc = "done" /\ UsesImport
        => eval_result = "TransformationError"

----------------------------------------------------------------------------
\* Further claims about Scraper

\* The pages the traversal has requested so far.
PagesFetched == Len(visit_log)

\* The configured start URLs.
StartUrls ==
    {target_config.start_urls[i] : i \in 1..Len(target_config.start_urls)}

\* C31: a static traversal that has ended either ran through its whole
\* frontier or has fetched max_pages pages; in particular every configured
\* start URL was fetched unless max_pages pages were fetched.
C31_EndsOnlyWhenExhausted ==
    (scrape_pc = "done" /\ PagesFetched < target_config.max_pages)
        => /\ RanToEnd
           /\ StartUrls \subseteq processed_urls

\* ---- Termination of the traversal ----
\* The site may be an unbounded chain: a page's next link can always lead
\* to a URL that no page before it named.
FreshUrl == ToString(NumPages + Len(urls_to_process) + 1)

\* The longest frontier the model keeps.  The loop breaks as soon as the
\* frontier is longer than max_pages, so it never holds more than the
\* start URLs or max_pages URLs, plus the one link just appended.
MaxFrontier == MaxStart + MaxPagesBound + 1

\* A traversal of _scrape_static with pagination enabled.
ChainInit ==
    /\ ScrapeInit
    /\ target_config.pagination_enabled
    /\ ~target_config.js_render

\* A page whose next link leads into the site (possibly in a cycle), to a
\* fresh URL, or nowhere.
VisitChainPage ==
    /\ Len(urls_to_process) < MaxFrontier
    /\ VisitPageWith(Pages \cup {None, FreshUrl})

\* The other iterations, followed while the frontier is shorter than
\* MaxFrontier.
ChainSkipProcessed == Len(urls_to_process) < MaxFrontier /\ SkipProcessed

ChainVisitFailed == Len(urls_to_process) < MaxFrontier /\ VisitFailed

ChainNext ==
    \/ ScrapeTarget
    \/ ChainSkipProcessed
    \/ ChainVisitFailed
    \/ VisitChainPage
    \/ FinishStatic

InitChain == ChainInit /\ HttpIdle /\ CleanIdle /\ TransformIdle /\ LockIdle
    /\ RoundTripIdle /\ CsvIdle /\ RunIdle /\ SchedIdle /\ EvalIdle
    /\ ExtractIdle /\ StringIdle /\ GaugeIdle

\* Every fetch ends (by response, error or timeout), so the coroutine
\* always takes its next step.
SpecChain == InitChain /\ [][ChainNext]_vars /\ WF_vars(ChainNext)

\* C32: with pagination enabled, over a site whose next links form cycles
\* or an unbounded chain of distinct URLs, _scrape_static returns, and it
\* has visited no more pages than the start URLs and max_pages allow.
C32_Terminates ==
    /\ <>(scrape_pc = "done")
    /\ [](Len(visit_log) <= Len(target_config.start_urls)
                                + target_config.max_pages)
    /\ [](Len(urls_to_process) < MaxFrontier)

\* A traversal that followed the chain beyond the site's known pages and
\* was ended by the max_pages break.
C32_Witness ==
    /\ scrape_pc = "done"
    /\ idx <= Len(urls_to_process)
    /\ \E k \in 1..Len(urls_to_process) : urls_to_process[k].url \notin Pages
    /\ \E k \in 1..Len(visit_log) : visit_log[k].url \notin Pages

----------------------------------------------------------------------------
\* Scraper._extract_items and _extract_item_data
\*
\* An item element is described by what each configured selector finds in
\* it: nothing ("nomatch"), an element with empty text or href ("empty"),
\* or an element with the text or href "x".

\* The selectors a target can configure for each field name; 'quote' is
\* the container selector and "span[" a selector soupsieve rejects.
SelectorsOf ==
    [quote |-> {"div.quote"},
     text |-> {"span::text", "span", "span[", "a::attr(href)"},
     run_id |-> {"small::text"}]

SelectorConfigs ==
    UNION {{s \in [S -> UNION {SelectorsOf[f] : f \in S}] :
                \A f \in S : s[f] \in SelectorsOf[f]} :
           S \in SUBSET (DOMAIN SelectorsOf)}

PageUrls == {"https://a", "https://b"}

RunIds == {"run_1", "run_2"}

Findings == {"nomatch", "empty", "x"}

\* The fields _extract_item_data loops over: all but the container.
ItemFields(sel) == DOMAIN sel \ {"quote"}

\* The metadata keys.
ProvenanceFields == {"source_url", "fetch_time", "run_id", "target_name"}

\* urljoin(source_url, attr_value) for a relative reference.
Urljoin(base, ref) == base \o "/" \o ref

\* item_data[field] = "" in place of None.
UnmatchedEmpty == ""

\* `else: item_data[field] = None`
Unmatched == None

\* selector.endswith('::attr(href)'); a '::text' selector and a plain one
\* both take the text of the first match.
IsHrefSelector(selector) == selector = "a::attr(href)"

\* element.select(css_selector) raises on a malformed selector.
IsInvalidSelector(selector) == selector = "span["

\* The value one selector contributes: get_text(strip=True) of the first
\* match, the absolute URL of its href, or None.
FieldValue(selector, found, url) ==
    IF found = "nomatch" THEN Unmatched
    ELSE IF IsHrefSelector(selector)
         THEN IF found = "empty" THEN None ELSE Urljoin(url, found)
         ELSE IF found = "empty" THEN "" ELSE found

\* item_data.update({...}): the metadata is written last.
Metadata(url, run, name, time) ==
    [source_url |-> url, fetch_time |-> ToString(time), run_id |-> run,
     target_name |-> name]

\* _extract_item_data: whether a selector raised (the method then logs
\* and returns None), and the item otherwise.
ExtractItemDataOf(element, sel, url, run, name, time) ==
    [raised |-> \E f \in ItemFields(sel) : IsInvalidSelector(sel[f]),
     item |-> Metadata(url, run, name, time)
        @@ [f \in ItemFields(sel) |-> FieldValue(sel[f], element[f], url)]]

ExtractInit ==
    /\ selectors \in SelectorConfigs
    /\ target_name = "Test Target"
    /\ run_id \in RunIds
    /\ source_url = None
    /\ item_elements = <<>>
    /\ element_at = 0
    /\ page_items = <<>>
    /\ extract_log = <<>>
    /\ utcnow \in {1, 2}
    /\ extract_pc = "idle"

\* _extract_items(soup, target_config, source_url, run_id): without a
\* 'quote' selector it returns no items; otherwise it selects the item
\* elements of the page.
ExtractItems ==
    /\ extract_pc = "idle"
    /\ source_url' \in PageUrls
    /\ IF "quote" \in DOMAIN selectors
       THEN /\ item_elements' \in
                 SeqsUpTo([ItemFields(selectors) -> Findings], MaxItemsPerPage)
            /\ element_at' = 1
            /\ extract_pc' = "loop"
       ELSE /\ extract_pc' = "returned"
            /\ UNCHANGED <<item_elements, element_at>>
    /\ UNCHANGED <<selectors, target_name, run_id, page_items, extract_log,
                   utcnow>>
    /\ UNCHANGED notExtractVars

\* One turn of `for element in item_elements`: the item is appended unless
\* _extract_item_data returned None.
ExtractItemData ==
    /\ extract_pc = "loop"
    /\ element_at <= Len(item_elements)
    /\ LET element == item_elements[element_at]
           data == ExtractItemDataOf(element, selectors, source_url, run_id,
                                     target_name, utcnow)
       IN IF data.raised
          THEN UNCHANGED <<page_items, extract_log>>
          ELSE /\ page_items' = Append(page_items, data.item)
               /\ extract_log' = Append(extract_log, element)
    /\ element_at' = element_at + 1
    /\ utcnow' = utcnow + 1
    /\ UNCHANGED <<selectors, target_name, run_id, source_url, item_elements,
                   extract_pc>>
    /\ UNCHANGED notExtractVars

\* return items
ReturnItems ==
    /\ extract_pc = "loop"
    /\ element_at > Len(item_elements)
    /\ extract_pc' = "returned"
    /\ UNCHANGED <<selectors, target_name, run_id, source_url, item_elements,
                   element_at, page_items, extract_log, utcnow>>
    /\ UNCHANGED notExtractVars

ExtractNext ==
    \/ ExtractItems
    \/ ExtractItemData
    \/ ReturnItems

InitExtract == ExtractInit /\ HttpIdle /\ ScrapeIdle /\ CleanIdle
    /\ TransformIdle /\ LockIdle /\ RoundTripIdle /\ CsvIdle /\ RunIdle
    /\ SchedIdle /\ EvalIdle /\ StringIdle /\ GaugeIdle

SpecExtract == InitExtract /\ [][ExtractNext]_vars

\* The item carries the provenance of its page and Run.
CarriesProvenance(item) ==
    /\ ProvenanceFields \subseteq DOMAIN item
    /\ item["source_url"] = source_url
    /\ item["run_id"] = run_id
    /\ item["target_name"] = target_name

\* Every element was emitted.
AllEmitted ==
    (extract_pc = "returned" /\ "quote" \in DOMAIN selectors
        /\ \A f \in ItemFields(selectors) : ~IsInvalidSelector(selectors[f]))
            => Len(page_items) = Len(item_elements)

\* C33 as stated: every emitted item has every configured non-container
\* field, None where the selector found nothing (the item is emitted all
\* the same), and carries the provenance of its page and Run.
C33_EveryFieldAndProvenance ==
    /\ \A k \in 1..Len(page_items) :
          /\ \A f \in ItemFields(selectors) :
                /\ f \in DOMAIN page_items[k]
                /\ extract_log[k][f] = "nomatch" => page_items[k][f] = None
          /\ CarriesProvenance(page_items[k])
    /\ AllEmitted

\* C33: every emitted item has every configured non-container field, None
\* where the selector found nothing unless the field is named like a
\* provenance field (the provenance value replaces it), the item being
\* emitted all the same; and every item carries the provenance of its page
\* and Run.
C33_FieldsAndProvenance ==
    /\ \A k \in 1..Len(page_items) :
          /\ \A f \in ItemFields(selectors) :
                /\ f \in DOMAIN page_items[k]
                /\ (extract_log[k][f] = "nomatch" /\ f \notin ProvenanceFields)
                        => page_items[k][f] = None
          /\ CarriesProvenance(page_items[k])
    /\ AllEmitted

\* An item was emitted although one of its selectors found nothing.
C33_Witness ==
    /\ extract_pc = "returned"
    /\ \E k \in 1..Len(page_items) :
          /\ "text" \in DOMAIN page_items[k]
          /\ extract_log[k]["text"] = "nomatch"
          /\ page_items[k]["text"] = None
          /\ page_items[k]["source_url"] = "https://b"

----------------------------------------------------------------------------
\* SchedulerManager.get_job_status and get_all_jobs

\* get_job_status(job_id) for a tracked id: next_run_time is read from the
\* scheduler's job, last_run from the manager's entry, and 'status' is
\* 'active' for every job object.
GetJobStatus(j) ==
    [id |-> j,
     next_run_time |-> IF paused[j] THEN None ELSE ToString(until_fire[j]),
     last_run |-> last_run[j],
     status |-> "active"]

\* get_all_jobs(): the status of every tracked id.
GetAllJobs == {GetJobStatus(j) : j \in active_jobs}

\* The report shows the job as enabled: it has a next run time.
ReportedEnabled(report) == report.next_run_time # None

\* C34: the reports surface the job's current state: once a firing of a
\* tracked job has started, its reported last_run is set; after
\* pause_job(id) the job is reported disabled, and after resume_job(id)
\* enabled again.
C34_StatusSurfaced ==
    [][\A j \in active_jobs :
          /\ JobRunnerRun(j) =>
                \E report \in GetAllJobs' :
                    report.id = j /\ report.last_run # None
          /\ PauseJob(j) => ~ReportedEnabled(GetJobStatus(j))'
          /\ ResumeJob(j) => ReportedEnabled(GetJobStatus(j))']_vars

----------------------------------------------------------------------------
\* Further claims about HTTPClient

\* C35: a fetch of a client constructed with max_retries = n makes at most
\* n attempts.
C35_ConfiguredAttemptBound ==
    \A t \in Tasks : Len(outcomes[t]) <= max_retries

----------------------------------------------------------------------------
\* DataCleaner._clean_string on its own
\*
\* The characters: a letter, a space, a tab (whitespace that is kept by the
\* control-character filter) and a control character that is not
\* whitespace, such as NUL.
MaxValueLen == 4        \* longest argument of _clean_string

CleanChars == Chars \cup {TAB}

CleanValues == UNION {[1..k -> CleanChars] : k \in 0..MaxValueLen}

StringInit ==
    /\ clean_value \in CleanValues
    /\ clean_result = <<>>
    /\ clean_string_pc = "called"

\* cleaned = self._clean_string(value)
CleanStringCall ==
    /\ clean_string_pc = "called"
    /\ clean_result' = CleanString(clean_value)
    /\ clean_string_pc' = "returned"
    /\ UNCHANGED clean_value
    /\ UNCHANGED notStringVars

\* The result is cleaned once more: self._clean_string(cleaned).
CleanStringAgain ==
    /\ clean_string_pc = "returned"
    /\ clean_value' = clean_result
    /\ clean_result' = CleanString(clean_result)
    /\ clean_string_pc' = "again"
    /\ UNCHANGED notStringVars

StringNext ==
    \/ CleanStringCall
    \/ CleanStringAgain

InitString == StringInit /\ HttpIdle /\ ScrapeIdle /\ CleanIdle
    /\ TransformIdle /\ LockIdle /\ RoundTripIdle /\ CsvIdle /\ RunIdle
    /\ SchedIdle /\ EvalIdle /\ ExtractIdle /\ GaugeIdle

SpecString == InitString /\ [][StringNext]_vars

\* The string has no whitespace at either end.
IsTrimmed(s) ==
    s = <<>> \/ (s[1] \notin Whitespace /\ s[Len(s)] \notin Whitespace)

\* The string has two whitespace characters in a row.
HasWhitespaceRun(s) ==
    \E i \in 1..(Len(s) - 1) : s[i] \in Whitespace /\ s[i + 1] \in Whitespace

\* C36: what _clean_string returns is trimmed, has no run of two or more
\* whitespace characters and no control character other than newline and
\* tab, and cleaning it again changes nothing.
C36_Normalized ==
    /\ clean_string_pc # "called" =>
          /\ IsTrimmed(clean_result)
          /\ ~HasWhitespaceRun(clean_result)
          /\ \A i \in 1..Len(clean_result) : clean_result[i] \notin ControlChars
    /\ clean_string_pc = "again" => clean_result = clean_value

----------------------------------------------------------------------------
\* CSVStorageAdapter.count

\* count(): 0 for a missing or empty file; otherwise the first line is
\* skipped as the header and the remaining lines are counted.
CsvCount ==
    IF ~file_exists \/ csv_file = <<>> THEN 0 ELSE Len(csv_file) - 1

\* C37: in append mode, after any sequence of save, save_one and clear,
\* count() is the number of items saved since the last clear and load()
\* returns that many records.
C37_CountMatchesSaved ==
    csv_mode = "a" =>
        /\ CsvCount = Len(since_clear)
        /\ Len(LoadedNow) = Len(since_clear)

----------------------------------------------------------------------------
\* The manager's registry and the scheduler's job store

\* C38: after any sequence of add_job_from_config, remove_job, pause_job,
\* resume_job and firings, the ids in self.active_jobs are the ids of the
\* jobs the scheduler holds, and a job that is not held is never
\* submitted for a firing.
C38_RegistryMatchesStore ==
    /\ [](active_jobs = job_store)
    /\ [][\A j \in JobIds :
              (run_state[j] = "idle" /\ run_state'[j] = "queued")
                  => j \in job_store]_vars

----------------------------------------------------------------------------
\* fetch_multiple under the event loop's scheduling

\* The clock of a run that is followed to its end: time passes freely up
\* to MaxTime, and after that for as long as a task sleeps in the rate
\* gate (asyncio.sleep always returns).
LiveTick ==
    /\ \/ now < MaxTime
       \/ \E t \in Tasks : pc[t] = "sleeping" /\ now < wakeAt[t]
    /\ now' = now + 1
    /\ UNCHANGED <<max_retries, last_request_time, request_lock, urls,
                   max_concurrent, semaphore, pc, attempt_number, wakeAt,
                   outcomes, raised, results, valid_results, fm_pc, gate_passes>>
    /\ UNCHANGED notHttpVars

HttpLiveNext ==
    \/ LiveTick
    \/ \E t \in Tasks : AcquireSemaphore(t)
    \/ \E t \in Tasks : EnterGate(t)
    \/ \E t \in Tasks : LeaveGate(t)
    \/ \E t \in Tasks : Request(t)
    \/ \E t \in Tasks : Retry(t)
    \/ ReturnResults

\* The event loop runs a ready coroutine and the clock advances; every
\* request attempt ends (Request is the end of an attempt).
SpecHTTPLive == InitHTTP /\ [][HttpLiveNext]_vars /\ WF_vars(HttpLiveNext)

\* C39: fetch_multiple is deadlock-free and terminates: every task
\* acquires a semaphore permit, passes the rate gate (the lock) and
\* reaches its request, and the call returns.
C39_Terminates ==
    /\ \A t \in 1..MaxUrls :
         /\ <>(t \in Tasks => attempt_number[t] >= 1)
         /\ <>(t \in Tasks => pc[t] = "requesting")
    /\ <>(fm_pc = "returned")

C39_Witness ==
    /\ fm_pc = "returned"
    /\ Len(urls) > max_concurrent
    /\ \E t \in Tasks : wakeAt[t] > 0
    /\ \E t \in Tasks : Len(outcomes[t]) = StopAfterAttempt

----------------------------------------------------------------------------
\* run_target_once fired by several scheduler jobs (src/main.py 131-285)

TargetNames == {"quotes", "books"}

\* The steps of run_target_once inside its try block.
OnceSteps == <<"scraping", "processing", "saving">>

InProgress(j) == once_pc[j] \in {"scraping", "processing", "saving", "finally"}

\* The jobs share one DataProcessorApp and the one MetricsCollector of
\* get_metrics_collector; each job runs on a worker thread of its own.
GaugeInit ==
    /\ active_runs = [t \in TargetNames |-> 0]
    /\ job_target \in [1..MaxJobs -> TargetNames]
    /\ once_pc = [j \in 1..MaxJobs |-> "waiting"]
    /\ once_success = [j \in 1..MaxJobs |-> None]

\* metrics.set_active_runs(count, target): the gauge is set, not counted.
GaugeSet(count, target) ==
    active_runs' = [active_runs EXCEPT ![target] = count]

\* A job fires: run_target_once sets the gauge to 1 and enters its try.
RunTargetOnce(j) ==
    /\ once_pc[j] = "waiting"
    /\ GaugeSet(1, job_target[j])
    /\ once_pc' = [once_pc EXCEPT ![j] = "scraping"]
    /\ UNCHANGED <<job_target, once_success>>
    /\ UNCHANGED notGaugeVars

\* One step of the pipeline ends well; after the last the result is built.
OnceStep(j) ==
    /\ \E i \in 1..Len(OnceSteps) :
         /\ once_pc[j] = OnceSteps[i]
         /\ IF i < Len(OnceSteps)
            THEN /\ once_pc' = [once_pc EXCEPT ![j] = OnceSteps[i + 1]]
                 /\ UNCHANGED once_success
            ELSE /\ once_pc' = [once_pc EXCEPT ![j] = "finally"]
                 /\ once_success' = [once_success EXCEPT ![j] = TRUE]
    /\ UNCHANGED <<active_runs, job_target>>
    /\ UNCHANGED notGaugeVars

\* except Exception: a step raised, the failure result is built.
OnceFails(j) ==
    /\ once_pc[j] \in {"scraping", "processing", "saving"}
    /\ once_pc' = [once_pc EXCEPT ![j] = "finally"]
    /\ once_success' = [once_success EXCEPT ![j] = FALSE]
    /\ UNCHANGED <<active_runs, job_target>>
    /\ UNCHANGED notGaugeVars

\* finally: the gauge is set to 0 and the result returned.
OnceFinally(j) ==
    /\ once_pc[j] = "finally"
    /\ GaugeSet(0, job_target[j])
    /\ once_pc' = [once_pc EXCEPT ![j] = "returned"]
    /\ UNCHANGED <<job_target, once_success>>
    /\ UNCHANGED notGaugeVars

\* The job's trigger comes round again.
OnceAgain(j) ==
    /\ once_pc[j] = "returned"
    /\ once_pc' = [once_pc EXCEPT ![j] = "waiting"]
    /\ once_success' = [once_success EXCEPT ![j] = None]
    /\ UNCHANGED <<active_runs, job_target>>
    /\ UNCHANGED notGaugeVars

GaugeNext ==
    \/ \E j \in DOMAIN once_pc : RunTargetOnce(j)
    \/ \E j \in DOMAIN once_pc : OnceStep(j)
    \/ \E j \in DOMAIN once_pc : OnceFails(j)
    \/ \E j \in DOMAIN once_pc : OnceFinally(j)
    \/ \E j \in DOMAIN once_pc : OnceAgain(j)

InitGauge == GaugeInit /\ HttpIdle /\ ScrapeIdle /\ CleanIdle
    /\ TransformIdle /\ LockIdle /\ RoundTripIdle /\ CsvIdle /\ RunIdle
    /\ SchedIdle /\ EvalIdle /\ ExtractIdle /\ StringIdle

SpecGauge == InitGauge /\ [][GaugeNext]_vars

RunsOf(target) == {j \in DOMAIN once_pc : job_target[j] = target /\ InProgress(j)}

\* C40: the active_runs gauge of a target is non-zero while at least one
\* run of the target is in progress, and zero once all have finished.
C40_GaugeTracksRuns ==
    \A target \in TargetNames :
        active_runs[target] # 0 <=> RunsOf(target) # {}

====
